---------------------------- MODULE Spec2Model ----------------------------
(***************************************************************************)
(* Verification model of the Stirling-SDG-SDK core:                        *)
(*   - LocalStirlingClient._resolve_text_collisions (Collision Resolver),  *)
(*   - DirectEditClient (Direct-Edit engine),                              *)
(*   - PipelineOrchestrator.process_batch and JSONEditor.replace_text.     *)
(*                                                                         *)
(* Lengths of the Collision Resolver are held in tenths of a device unit,  *)
(* so that fontSize * 0.3 is the integer 3 * fontSize and the comparisons  *)
(* of the code are exact.  Text is a sequence of one-character strings.    *)
(***************************************************************************)
EXTENDS Integers, Sequences, FiniteSets, TLC

VARIABLES
    \* ---- Collision Resolver (local_client.py)
    elements,       \* the list handed to _resolve_text_collisions
    page_width,     \* page_width argument (tenths)
    page_height,    \* page_height argument (tenths)
    resolved,       \* the list it returns
    cpc,            \* "input" before the call, "done" after it
    \* ---- Direct-Edit engine (direct_edit_client.py) and its environment
    files,          \* the file system: path -> [ok, pages]
    doc,            \* self.doc: None or the open fitz document
    pdf_path,       \* self.pdf_path: "None" or a path
    live,           \* ids of the fitz documents opened and not yet closed
    nextId,         \* id of the next fitz document
    lastOp,         \* the operation that ran last
    args,           \* its arguments
    lastErr,        \* what it raised ("none" when it returned)
    ret,            \* what it returned
    calls,          \* the find_and_replace calls it made: [search, repl, count]
    prev,           \* doc, pdf_path, files, live when it was called
    nops,           \* number of operations run so far
    \* ---- PipelineOrchestrator.process_batch (pipeline/orchestrator.py)
    bpc,            \* where process_batch is
    num_variations, \* its argument
    doc_type,       \* what self.detector.detect(input_path) answers
    template_path,  \* type of the template at template_path, "None" without one
    template,       \* the template: [type, variable_fields]
    is_direct_edit, \* template.get("type") == "direct_edit"
    pdf_json,       \* the extracted representation of the reconstruction route
    bi,             \* i of "for i in range(num_variations)"
    synthetic_data, \* the synthetic data of variation i
    exc,            \* the exception in flight, "none" without one
    results,        \* the list process_batch returns
    failed,         \* the variations logged as failed, in order
    used,           \* the synthetic data of the variations in results
    rendered,       \* output path -> the representation json_to_pdf rendered there
    \* ---- Word-Spacer (local_client.py); its arguments are elements, page_width
    spaced,         \* the list _add_word_spacing returns
    respaced,       \* what it returns when called again on that list
    wpc,            \* "input", "once" after the first call, "twice" after the second
    \* ---- Font Resolver (local_client.py)
    font_name,      \* the name handed to _get_safe_font
    safe_font,      \* what it returns
    safe_font_again,\* what it returns for the same name when called again
    fpc,            \* "input", "once", "twice"
    \* ---- pdf_to_json and json_to_pdf (local_client.py)
    source,         \* the pages of the source as pdfplumber reports them
    json_data,      \* the representation: a sequence of pages
    json_edited,         \* whether json_data was json_edited after its extraction
    resolve_collisions, \* option of json_to_pdf
    add_word_spacing,   \* option of json_to_pdf
    rpc,            \* where json_to_pdf is
    page_i,         \* index of page_data in pages
    page_text,      \* the local text_elements of the page being painted
    events,         \* the calls made on the canvas and the passes run, in order
    output,         \* the file at output_path: [ok, pages]
    \* ---- GitHubModelsClient (synthesis/github_models_client.py)
    class_json,     \* the pdf_json handed to classify_content
    simplified,     \* the simplified_json sent to the model
    llm_fields,     \* the variable_fields of the model's answer
    filled_fields,  \* the variable_fields after _fill_missing_page_numbers
    kpc,            \* where classify_content is
    chat_caller,    \* the method that calls chat_completion
    max_retries,    \* its max_retries argument, handed on to chat_completion
    attempt,        \* attempt of "for attempt in range(max_retries)"
    requests,       \* what the API answered to the requests issued, in order
    sleeps,         \* the time.sleep calls of chat_completion, in order
    chat_ret,       \* what chat_completion returned or raised: [raised, value]
    caller_calls,   \* number of chat_completion calls the caller made
    caller_out,     \* how the caller ended
    hpc             \* where the caller and chat_completion are

collisionVars == <<elements, page_width, page_height, resolved, cpc>>

engineVars ==
    <<files, doc, pdf_path, live, nextId, lastOp, args, lastErr, ret, calls, prev, nops>>

batchVars ==
    <<bpc, num_variations, doc_type, template_path, template, is_direct_edit, pdf_json,
      bi, synthetic_data, exc, results, failed, used, rendered>>

spacingVars == <<spaced, respaced, wpc>>

fontVars == <<font_name, safe_font, safe_font_again, fpc>>

renderVars ==
    <<source, json_data, json_edited, resolve_collisions, add_word_spacing, rpc, page_i,
      page_text, events, output>>

classifyVars == <<class_json, simplified, llm_fields, filled_fields, kpc>>

chatVars ==
    <<chat_caller, max_retries, attempt, requests, sleeps, chat_ret, caller_calls,
      caller_out, hpc>>

llmVars == <<classifyVars, chatVars>>

rebuildVars == <<spacingVars, fontVars, renderVars, llmVars>>

otherVars == <<collisionVars, batchVars, rebuildVars>>

nonRenderVars == <<collisionVars, engineVars, batchVars, spacingVars, fontVars, llmVars>>

vars == <<collisionVars, engineVars, batchVars, rebuildVars>>

Max(a, b) == IF a >= b THEN a ELSE b
Min(a, b) == IF a <= b THEN a ELSE b

(***************************************************************************)
(* Collision Resolver                                                      *)
(***************************************************************************)

\* Bounds of the inputs of the Collision Resolver.
MaxElems == 3

ElemXs == {0, 50, 200}
ElemYs == {0, 10, 60}
ElemWidths == {50, 100}
ElemHeights == {100}
ElemFontSizes == {10, 20}
PageSizes == {<<400, 300>>, <<2000, 2000>>}

\* A text element of a page: x, y (top-left origin), width, height, fontSize.
\* id stands for the element's text and the fields the resolver never reads.
TextElement(id, x, y, w, h, fs) ==
    [id |-> id, x |-> x, y |-> y, width |-> w, height |-> h, fontSize |-> fs]

\* sort key (e["y"], e["x"]) of resolved.sort
KeyLess(a, b) == a.y < b.y \/ (a.y = b.y /\ a.x < b.x)

RECURSIVE InsertSorted(_, _)
InsertSorted(e, s) ==
    IF s = <<>> THEN <<e>>
    ELSE IF KeyLess(e, Head(s)) THEN <<e>> \o s
    ELSE <<Head(s)>> \o InsertSorted(e, Tail(s))

\* a list left in its input order
Unsorted(s) == s

\* list.sort is stable: equal keys keep their input order.
RECURSIVE SortByYX(_)
SortByYX(s) ==
    IF s = <<>> THEN <<>>
    ELSE InsertSorted(s[Len(s)], SortByYX(SubSeq(s, 1, Len(s) - 1)))

\* margin = max(max(font_size, o_font_size) * 0.3, 3), in tenths
Margin(fs, ofs) == Max(Max(fs, ofs) * 3, 30)

\* base_margin = max(font_size * 0.3, 2), in tenths
BaseMargin(fs) == Max(fs * 3, 20)

\* x_overlap and y_overlap of the candidate box against an occupied box o
BoxesOverlap(x, y, w, h, fs, o) ==
    LET margin == Margin(fs, o.fontSize) IN
    /\ x < o.x + o.width + margin
    /\ x + w + margin > o.x
    /\ y < o.y + o.height + margin
    /\ y + h + margin > o.y

YOverlapAmount(y, h, o) == Min(y + h, o.y + o.height) - Max(y, o.y)

\* a resolver that only ever shifts down
NeverSameLine(y, h, o) == FALSE

\* "Same line" is the else branch of y_overlap_amount <= h * 0.5.
SameLine(y, h, o) == ~ (2 * YOverlapAmount(y, h, o) <= h)

SetMax(S) == IF S = {} THEN 0 ELSE CHOOSE m \in S : \A n \in S : n <= m

\* shift_y after the scan of occupied (starts at 0, max of the needed shifts)
ShiftY(x, y, w, h, fs, occupied) ==
    Max(0, SetMax({ (occupied[k].y + occupied[k].height
                        + Margin(fs, occupied[k].fontSize)) - y :
                    k \in { k \in 1..Len(occupied) :
                              /\ BoxesOverlap(x, y, w, h, fs, occupied[k])
                              /\ ~ SameLine(y, h, occupied[k]) } }))

\* shift_x after the scan of occupied (only needed shifts > 0 count)
ShiftX(x, y, w, h, fs, occupied) ==
    Max(0, SetMax({ (occupied[k].x + occupied[k].width
                        + Margin(fs, occupied[k].fontSize)) - x :
                    k \in { k \in 1..Len(occupied) :
                              /\ BoxesOverlap(x, y, w, h, fs, occupied[k])
                              /\ SameLine(y, h, occupied[k]) } }))

\* new_x = max(min(x + shift_x, page_width - w - base_margin), 0)
ClampX(nx, w, bm, pw) == Max(Min(nx, pw - w - bm), 0)

\* new_y = max(min(old_y + shift_y, page_height - elem_h - base_margin), 0)
ClampY(ny, h, bm, ph) == Max(Min(ny, ph - h - bm), 0)

\* One iteration of "for i, elem in enumerate(resolved)".
CollisionStep(st, i, pw, ph) ==
    LET elem == st.resolved[i]
        x == elem.x
        y == elem.y
        w == elem.width
        h == elem.height
        fs == elem.fontSize
        bm == BaseMargin(fs)
        sy == ShiftY(x, y, w, h, fs, st.occupied)
        sx == ShiftX(x, y, w, h, fs, st.occupied)
        afterX == IF sx > 0
                  THEN [st.resolved EXCEPT ![i].x = ClampX(x + sx, w, bm, pw)]
                  ELSE st.resolved
        afterY == IF sy > 0
                  THEN [j \in 1..Len(afterX) |->
                          IF j >= i
                          THEN [afterX[j] EXCEPT
                                  !.y = ClampY(afterX[j].y + sy, afterX[j].height, bm, ph)]
                          ELSE afterX[j]]
                  ELSE afterX
    IN [resolved |-> afterY,
        occupied |-> Append(st.occupied, afterY[i])]

RECURSIVE CollisionLoop(_, _, _, _)
CollisionLoop(st, i, pw, ph) ==
    IF i > Len(st.resolved) THEN st
    ELSE CollisionLoop(CollisionStep(st, i, pw, ph), i + 1, pw, ph)

\* _resolve_text_collisions(elements, page_width, page_height)
_resolve_text_collisions(elems, pw, ph) ==
    IF elems = <<>> THEN elems
    ELSE CollisionLoop([resolved |-> SortByYX(elems), occupied |-> <<>>], 1, pw, ph).resolved

ElemChoices ==
    { TextElement(0, x, y, w, h, fs) :
        x \in ElemXs, y \in ElemYs, w \in ElemWidths, h \in ElemHeights,
        fs \in ElemFontSizes }

\* every list of 1..max elements over the input sets, ids = input index
ElementLists(max) ==
    UNION { { [k \in 1..n |-> [f[k] EXCEPT !.id = k]] : f \in [1..n -> ElemChoices] } :
            n \in 1..max }

CollisionInputs ==
    /\ elements \in ElementLists(MaxElems)
    /\ \E ps \in PageSizes : page_width = ps[1] /\ page_height = ps[2]
    /\ resolved = <<>>
    /\ cpc = "input"

\* the call json_to_pdf makes when resolve_collisions is set
ResolveCollisions ==
    /\ cpc = "input"
    /\ resolved' = _resolve_text_collisions(elements, page_width, page_height)
    /\ cpc' = "done"
    /\ UNCHANGED <<elements, page_width, page_height>>


(***************************************************************************)
(* Word-Spacer                                                             *)
(***************************************************************************)

\* line_tolerance = 5, in tenths
LineTolerance == 50

Abs(a) == IF a >= 0 THEN a ELSE 0 - a

\* index of the first line group whose key is within the tolerance of y, 0
\* if there is none
LineOf(lines, y) ==
    IF \E g \in 1..Len(lines) : Abs(lines[g].key - y) < LineTolerance
    THEN CHOOSE g \in 1..Len(lines) :
            /\ Abs(lines[g].key - y) < LineTolerance
            /\ \A f \in 1..(g - 1) : ~ (Abs(lines[f].key - y) < LineTolerance)
    ELSE 0

\* the dict lines after the elements i..: key y of the first element of the
\* group -> indices of its elements, groups in insertion order
RECURSIVE GroupLines(_, _, _)
GroupLines(elems, i, lines) ==
    IF i > Len(elems) THEN lines
    ELSE LET g == LineOf(lines, elems[i].y) IN
         GroupLines(elems, i + 1,
                    IF g = 0
                    THEN Append(lines, [key |-> elems[i].y, indices |-> <<i>>])
                    ELSE [lines EXCEPT ![g].indices = Append(@, i)])

RECURSIVE InsertByX(_, _, _)
InsertByX(i, indices, elems) ==
    IF indices = <<>> THEN <<i>>
    ELSE IF elems[i].x < elems[Head(indices)].x THEN <<i>> \o indices
    ELSE <<Head(indices)>> \o InsertByX(i, Tail(indices), elems)

\* indices.sort(key=lambda i: elements[i].get("x", 0)), a stable sort
RECURSIVE SortByX(_, _)
SortByX(indices, elems) ==
    IF indices = <<>> THEN <<>>
    ELSE InsertByX(indices[Len(indices)],
                   SortByX(SubSeq(indices, 1, Len(indices) - 1), elems), elems)

\* min_space = max((prev_font + curr_font) / 2 * 0.4, 4), in tenths
MinSpace(prev_font, curr_font) == Max(2 * (prev_font + curr_font), 40)

\* the elements after "for k in range(j, len(indices))" with shift_needed
ShiftFrom(elems, indices, j, shift_needed, pw) ==
    [i \in 1..Len(elems) |->
        IF \E k \in j..Len(indices) : indices[k] = i
        THEN [elems[i] EXCEPT !.x = Min(elems[i].x + shift_needed, pw - elems[i].width - 20)]
        ELSE elems[i]]

\* One iteration of "for j in range(1, len(indices))"; positions of indices
\* count from 1 here.  The elements are edited in place, so prev_elem and
\* curr_elem already hold the shifts applied so far.
SpacingStep(st, indices, j, pw) ==
    LET prev_elem == st.elements[indices[j - 1]]
        curr_elem == st.elements[indices[j]]
        prev_x == prev_elem.x + st.cumulative_shift
        min_space == MinSpace(prev_elem.fontSize, curr_elem.fontSize)
        current_gap == curr_elem.x - (prev_x + prev_elem.width)
        shift_needed == min_space - current_gap
    IN IF current_gap < min_space
       THEN [elements |-> ShiftFrom(st.elements, indices, j, shift_needed, pw),
             cumulative_shift |-> st.cumulative_shift + shift_needed]
       ELSE st

RECURSIVE SpacingLoop(_, _, _, _)
SpacingLoop(st, indices, j, pw) ==
    IF j > Len(indices) THEN st
    ELSE SpacingLoop(SpacingStep(st, indices, j, pw), indices, j + 1, pw)

\* the body of "for line_y, indices in lines.items()" for one line
SpaceLine(elems, indices, pw) ==
    IF Len(indices) < 2 THEN elems
    ELSE SpacingLoop([elements |-> elems, cumulative_shift |-> 0],
                     SortByX(indices, elems), 2, pw).elements

RECURSIVE SpaceLines(_, _, _, _)
SpaceLines(elems, lines, g, pw) ==
    IF g > Len(lines) THEN elems
    ELSE SpaceLines(SpaceLine(elems, lines[g].indices, pw), lines, g + 1, pw)

\* _add_word_spacing(elements, page_width)
_add_word_spacing(elems, pw) ==
    IF Len(elems) < 2 THEN elems
    ELSE SpaceLines(elems, GroupLines(elems, 1, <<>>), 1, pw)

\* Bounds of the inputs of the Word-Spacer.
MaxWords == 3

WordXs == {0, 100, 240}
WordYs == {0, 30, 100}
WordWidths == {100, 200}
WordFontSizes == {10, 12}
WordPageWidths == {460, 5000}

WordChoices ==
    { TextElement(0, x, y, w, 100, fs) :
        x \in WordXs, y \in WordYs, w \in WordWidths, fs \in WordFontSizes }

WordLists(max) ==
    UNION { { [k \in 1..n |-> [f[k] EXCEPT !.id = k]] : f \in [1..n -> WordChoices] } :
            n \in 1..max }

SpacingIdle ==
    /\ spaced = <<>>
    /\ respaced = <<>>
    /\ wpc = "idle"


SpacingInputs ==
    /\ elements \in WordLists(MaxWords)
    /\ page_width \in WordPageWidths
    /\ page_height = 0
    /\ resolved = <<>>
    /\ cpc = "idle"
    /\ spaced = <<>>
    /\ respaced = <<>>
    /\ wpc = "input"

\* the call json_to_pdf makes when add_word_spacing is set
AddWordSpacing ==
    /\ wpc = "input"
    /\ spaced' = _add_word_spacing(elements, page_width)
    /\ wpc' = "once"
    /\ UNCHANGED <<respaced, collisionVars>>

\* the same call on the list the first one returned
AddWordSpacingAgain ==
    /\ wpc = "once"
    /\ respaced' = _add_word_spacing(spaced, page_width)
    /\ wpc' = "twice"
    /\ UNCHANGED <<spaced, collisionVars>>

(***************************************************************************)
(* Font Resolver                                                           *)
(*                                                                         *)
(* A font name is a sequence of one-character strings.                     *)
(***************************************************************************)

\* str.lower() of one character
Lower(c) ==
    CASE c = "A" -> "a"
      [] c = "B" -> "b"
      [] c = "C" -> "c"
      [] c = "D" -> "d"
      [] c = "E" -> "e"
      [] c = "F" -> "f"
      [] c = "G" -> "g"
      [] c = "H" -> "h"
      [] c = "I" -> "i"
      [] c = "J" -> "j"
      [] c = "K" -> "k"
      [] c = "L" -> "l"
      [] c = "M" -> "m"
      [] c = "N" -> "n"
      [] c = "O" -> "o"
      [] c = "P" -> "p"
      [] c = "Q" -> "q"
      [] c = "R" -> "r"
      [] c = "S" -> "s"
      [] c = "T" -> "t"
      [] c = "U" -> "u"
      [] c = "V" -> "v"
      [] c = "W" -> "w"
      [] c = "X" -> "x"
      [] c = "Y" -> "y"
      [] c = "Z" -> "z"
      [] OTHER -> c

LowerAll(t) == [i \in 1..Len(t) |-> Lower(t[i])]

\* t.replace(c, "")
Without(t, c) == SelectSeq(t, LAMBDA d : d # c)

\* the font names kept as they are
NotNormalized(name) == name

\* font_name.lower().replace(" ", "").replace("-", "")
Normalized(name) == Without(Without(LowerAll(name), " "), "-")

\* "sub in t"
Within(sub, t) ==
    \E i \in 1..(Len(t) - Len(sub) + 1) : SubSeq(t, i, i + Len(sub) - 1) = sub

Bold == <<"b", "o", "l", "d">>
Italic == <<"i", "t", "a", "l", "i", "c">>
Oblique == <<"o", "b", "l", "i", "q", "u", "e">>
Times == <<"t", "i", "m", "e", "s">>
Courier == <<"c", "o", "u", "r", "i", "e", "r">>

\* font_map, in the order of the dict
font_map ==
    << [key |-> <<"h", "e", "l", "v", "e", "t", "i", "c", "a">>, value |-> "Helvetica"],
       [key |-> <<"a", "r", "i", "a", "l">>, value |-> "Helvetica"],
       [key |-> <<"t", "i", "m", "e", "s">>, value |-> "Times-Roman"],
       [key |-> <<"t", "i", "m", "e", "s", "n", "e", "w", "r", "o", "m", "a", "n">>, value |-> "Times-Roman"],
       [key |-> <<"t", "i", "m", "e", "s", "-", "r", "o", "m", "a", "n">>, value |-> "Times-Roman"],
       [key |-> <<"c", "o", "u", "r", "i", "e", "r">>, value |-> "Courier"],
       [key |-> <<"s", "y", "m", "b", "o", "l">>, value |-> "Symbol"],
       [key |-> <<"z", "a", "p", "f", "d", "i", "n", "g", "b", "a", "t", "s">>, value |-> "ZapfDingbats"] >>

\* "for key, value in font_map.items(): if key in normalized: return value",
\* then the default
BaseFont(normalized) ==
    IF \E k \in 1..Len(font_map) : Within(font_map[k].key, normalized)
    THEN font_map[CHOOSE k \in 1..Len(font_map) :
                     /\ Within(font_map[k].key, normalized)
                     /\ \A j \in 1..(k - 1) : ~ Within(font_map[j].key, normalized)].value
    ELSE "Helvetica"

\* _get_safe_font(font_name)
_get_safe_font(name) ==
    LET normalized == Normalized(name) IN
    IF Within(Bold, normalized) /\ Within(Italic, normalized)
    THEN (IF Within(Times, normalized) THEN "Times-BoldItalic"
          ELSE IF Within(Courier, normalized) THEN "Courier-BoldOblique"
          ELSE "Helvetica-BoldOblique")
    ELSE IF Within(Bold, normalized)
    THEN (IF Within(Times, normalized) THEN "Times-Bold"
          ELSE IF Within(Courier, normalized) THEN "Courier-Bold"
          ELSE "Helvetica-Bold")
    ELSE IF Within(Italic, normalized) \/ Within(Oblique, normalized)
    THEN (IF Within(Times, normalized) THEN "Times-Italic"
          ELSE IF Within(Courier, normalized) THEN "Courier-Oblique"
          ELSE "Helvetica-Oblique")
    ELSE BaseFont(normalized)

\* the names tried: a family followed by a style
FontFamilies ==
    { <<"A", "r", "i", "a", "l">>,
      <<"H", "e", "l", "v", "e", "t", "i", "c", "a">>,
      <<"T", "i", "m", "e", "s", "N", "e", "w", "R", "o", "m", "a", "n", "P", "S">>,
      <<"T", "i", "m", "e", "s", " ", "N", "e", "w", " ", "R", "o", "m", "a", "n">>,
      <<"C", "o", "u", "r", "i", "e", "r", " ", "N", "e", "w">>,
      <<"S", "y", "m", "b", "o", "l">>,
      <<"Z", "a", "p", "f", "D", "i", "n", "g", "b", "a", "t", "s">>,
      <<"A", "B", "C", "D", "E", "F", "+", "C", "a", "l", "i", "b", "r", "i">>,
      <<"X">> }

FontStyles ==
    { <<>>,
      <<"-", "B", "o", "l", "d">>,
      <<"-", "B", "o", "l", "d", "M", "T">>,
      <<"-", "I", "t", "a", "l", "i", "c">>,
      <<"-", "I", "t", "a", "l", "i", "c", "M", "T">>,
      <<" ", "B", "o", "l", "d", " ", "I", "t", "a", "l", "i", "c">>,
      <<"-", "B", "o", "l", "d", "O", "b", "l", "i", "q", "u", "e">>,
      <<"-", "O", "b", "l", "i", "q", "u", "e">>,
      <<",", "B", "O", "L", "D">> }

FontNames == { f \o st : f \in FontFamilies, st \in FontStyles }

FontIdle ==
    /\ font_name = <<>>
    /\ safe_font = "None"
    /\ safe_font_again = "None"
    /\ fpc = "idle"

\* nothing extracted, nothing painted
NoOutput == [ok |-> FALSE, pages |-> <<>>]

RenderIdle ==
    /\ source = <<>>
    /\ json_data = <<>>
    /\ json_edited = FALSE
    /\ resolve_collisions = FALSE
    /\ add_word_spacing = FALSE
    /\ rpc = "idle"
    /\ page_i = 0
    /\ page_text = <<>>
    /\ events = <<>>
    /\ output = NoOutput

\* classify_content not called
ClassifyIdle ==
    /\ class_json = <<>>
    /\ simplified = <<>>
    /\ llm_fields = <<>>
    /\ filled_fields = <<>>
    /\ kpc = "idle"

\* nothing returned, nothing raised
NoAnswer == [raised |-> FALSE, value |-> "none"]

\* chat_completion not called
ChatIdle ==
    /\ chat_caller = "none"
    /\ max_retries = 0
    /\ attempt = 0
    /\ requests = <<>>
    /\ sleeps = <<>>
    /\ chat_ret = NoAnswer
    /\ caller_calls = 0
    /\ caller_out = "none"
    /\ hpc = "idle"

LlmIdle == ClassifyIdle /\ ChatIdle

RebuildIdle == SpacingIdle /\ FontIdle /\ RenderIdle /\ LlmIdle

FontInputs ==
    /\ font_name \in FontNames
    /\ safe_font = "None"
    /\ safe_font_again = "None"
    /\ fpc = "input"

\* safe_font = self._get_safe_font(font_name)
GetSafeFont ==
    /\ fpc = "input"
    /\ safe_font' = _get_safe_font(font_name)
    /\ fpc' = "once"
    /\ UNCHANGED <<font_name, safe_font_again>>

\* the same call for the same name, as for the next element of that font
GetSafeFontAgain ==
    /\ fpc = "once"
    /\ safe_font_again' = _get_safe_font(font_name)
    /\ fpc' = "twice"
    /\ UNCHANGED <<font_name, safe_font>>

(***************************************************************************)
(* Text, pages and documents                                               *)
(*                                                                         *)
(* A document is a sequence of pages, a page a sequence of lines, a line   *)
(* the reading-order sequence of its glyphs; a glyph carries the style of  *)
(* the span it belongs to.  Geometry inside a line is not modelled: the    *)
(* rectangle of an occurrence is its line and the index of its first glyph.*)
(***************************************************************************)

Glyph(ch, size, color, font) == [ch |-> ch, size |-> size, color |-> color, font |-> font]

Styled(text, size, color, font) ==
    [k \in 1..Len(text) |-> Glyph(text[k], size, color, font)]

Chars(line) == [k \in 1..Len(line) |-> line[k].ch]

\* font_size = 12.0 and color = (0.0, 0.0, 0.0): the style when none is inferred
DefaultSize == 12
DefaultColor == "black"

\* the native PDF the engine is pointed at: page 1 "ab a", page 2 "aab"
SourcePages ==
    << << Styled(<<"a", "b", " ", "a">>, 11, "black", "Helvetica") >>,
       << Styled(<<"a", "a", "b">>, 14, "red", "Times-Bold") >> >>

OpenPaths == {"in.pdf", "bad.pdf", "out.pdf"}

\* output_dir / f"variation_{i + 1:04d}.pdf"
VariationPaths ==
    <<"variation_0001.pdf", "variation_0002.pdf", "variation_0003.pdf",
      "variation_0004.pdf", "variation_0005.pdf">>

Paths ==
    OpenPaths \cup {"in_edited.pdf", "bad_edited.pdf", "out_edited.pdf", "output.pdf"}
        \cup {VariationPaths[k] : k \in 1..Len(VariationPaths)}

\* self.pdf_path.parent / f"{self.pdf_path.stem}_edited.pdf"
EditedPath(p) ==
    CASE p = "in.pdf" -> "in_edited.pdf"
      [] p = "bad.pdf" -> "bad_edited.pdf"
      [] p = "out.pdf" -> "out_edited.pdf"
      [] OTHER -> "output.pdf"

NoFile == [ok |-> FALSE, pages |-> <<>>]

InitFiles ==
    [p \in Paths |-> IF p = "in.pdf" THEN [ok |-> TRUE, pages |-> SourcePages] ELSE NoFile]

\* self.doc = None
None == [id |-> 0, pages |-> <<>>]

ErrNoDoc == "StirlingAPIError: No document open. Call open() first."
ErrOpen == "StirlingAPIError: Failed to open PDF"
ErrSave == "StirlingAPIError: Failed to save PDF"

(***************************************************************************)
(* page.search_for, redaction and insert_text                              *)
(***************************************************************************)

MatchAt(cs, s, i) ==
    /\ Len(s) > 0
    /\ i + Len(s) - 1 <= Len(cs)
    /\ SubSeq(cs, i, i + Len(s) - 1) = s

\* start indices of the occurrences of s in one line, left to right
RECURSIVE SearchLine(_, _, _)
SearchLine(cs, s, i) ==
    IF i > Len(cs) THEN <<>>
    ELSE IF MatchAt(cs, s, i) THEN <<i>> \o SearchLine(cs, s, i + Len(s))
    ELSE SearchLine(cs, s, i + 1)

\* rects = page.search_for(search_text): one rectangle per occurrence
RECURSIVE SearchLines(_, _, _)
SearchLines(page, s, l) ==
    IF l > Len(page) THEN <<>>
    ELSE LET hits == SearchLine(Chars(page[l]), s, 1)
         IN [k \in 1..Len(hits) |-> [line |-> l, start |-> hits[k]]]
            \o SearchLines(page, s, l + 1)

SearchFor(page, s) == SearchLines(page, s, 1)

\* an inference that never looks under the rectangle
NeverInferStyle(glyphs, match_style) == [size |-> DefaultSize, color |-> DefaultColor]

\* the first span under the rectangle whose text is not blank, or the defaults
InferStyle(glyphs, match_style) ==
    IF match_style /\ \E k \in 1..Len(glyphs) : glyphs[k].ch # " "
    THEN LET k == CHOOSE k \in 1..Len(glyphs) :
                    /\ glyphs[k].ch # " "
                    /\ \A j \in 1..(k - 1) : glyphs[j].ch = " "
         IN [size |-> glyphs[k].size, color |-> glyphs[k].color]
    ELSE [size |-> DefaultSize, color |-> DefaultColor]

\* page.insert_text(point=rect.bl, text=replace_text, fontsize=font_size,
\*                  fontname="helv", color=color)
InsertText(text, style) == Styled(text, style.size, style.color, "helv")

\* One line after the loop "for rect in rects": each rectangle is redacted and
\* the replacement painted at its bottom-left corner.
RECURSIVE ReplaceInLine(_, _, _, _, _)
ReplaceInLine(line, s, r, match_style, i) ==
    IF i > Len(line) THEN <<>>
    ELSE IF MatchAt(Chars(line), s, i)
         THEN InsertText(r, InferStyle(SubSeq(line, i, i + Len(s) - 1), match_style))
              \o ReplaceInLine(line, s, r, match_style, i + Len(s))
         ELSE <<line[i]>> \o ReplaceInLine(line, s, r, match_style, i + 1)

ReplaceInPage(page, s, r, match_style) ==
    [l \in 1..Len(page) |-> ReplaceInLine(page[l], s, r, match_style, 1)]

\* a count of the pages with a hit instead of the hits
RECURSIVE CountPages(_, _, _)
CountPages(pages, s, p) ==
    IF p > Len(pages) THEN 0
    ELSE (IF SearchFor(pages[p], s) = <<>> THEN 0 ELSE 1) + CountPages(pages, s, p + 1)

RECURSIVE CountRects(_, _, _)
CountRects(pages, s, p) ==
    IF p > Len(pages) THEN 0
    ELSE Len(SearchFor(pages[p], s)) + CountRects(pages, s, p + 1)

\* find_and_replace on an open document: the pages afterwards and the count
FindAndReplacePages(pages, s, r, match_style) ==
    [pages |-> [p \in 1..Len(pages) |-> ReplaceInPage(pages[p], s, r, match_style)],
     count |-> CountRects(pages, s, 1)]

(***************************************************************************)
(* Synthesis values and apply_template                                     *)
(***************************************************************************)

\* A value of the synthesis mapping: absent (None), a string, a dict (its
\* items in stored order, each value a string), a number or a boolean.
VNone == [kind |-> "none", s |-> <<>>, d |-> <<>>, n |-> 0, b |-> FALSE]
VStr(t) == [VNone EXCEPT !.kind = "str", !.s = t]
VDict(items) == [VNone EXCEPT !.kind = "dict", !.d = items]
VInt(n) == [VNone EXCEPT !.kind = "int", !.n = n]
VBool(b) == [VNone EXCEPT !.kind = "bool", !.b = b]

Item(k, v) == [k |-> k, v |-> v]

\* "not replacement"
Falsy(v) ==
    \/ v.kind = "none"
    \/ v.kind = "str" /\ v.s = <<>>
    \/ v.kind = "dict" /\ v.d = <<>>
    \/ v.kind = "int" /\ v.n = 0
    \/ v.kind = "bool" /\ ~ v.b

HasKey(d, k) == \E i \in 1..Len(d) : d[i].k = k

Lookup(d, k) == d[CHOOSE i \in 1..Len(d) : d[i].k = k].v

\* " ".join(str(v) for v in replacement.values())
RECURSIVE JoinValues(_)
JoinValues(d) ==
    IF d = <<>> THEN <<>>
    ELSE IF Len(d) = 1 THEN d[1].v
    ELSE d[1].v \o <<" ">> \o JoinValues(Tail(d))

\* a flattening that knows no date range
FlattenNoRange(d) == JoinValues(d)

\* the isinstance(replacement, dict) branch of apply_template
Flatten(d) ==
    IF HasKey(d, "start_date") /\ HasKey(d, "end_date")
    THEN Lookup(d, "start_date") \o <<" ", "-", " ">> \o Lookup(d, "end_date")
    ELSE IF HasKey(d, "start") /\ HasKey(d, "end")
    THEN Lookup(d, "start") \o <<" ", "-", " ">> \o Lookup(d, "end")
    ELSE JoinValues(d)

Digits == <<"0", "1", "2", "3", "4", "5", "6", "7", "8", "9">>

\* str(n) of a non-negative integer
RECURSIVE IntStr(_)
IntStr(n) ==
    IF n < 10 THEN <<Digits[n + 1]>>
    ELSE IntStr(n \div 10) \o <<Digits[(n % 10) + 1]>>

\* the string apply_template hands to find_and_replace for a truthy value
DisplayString(v) ==
    CASE v.kind = "dict" -> Flatten(v.d)
      [] v.kind = "str" -> v.s
      [] v.kind = "int" -> IntStr(v.n)
      [] v.kind = "bool" -> IF v.b THEN <<"T", "r", "u", "e">>
                                   ELSE <<"F", "a", "l", "s", "e">>
      [] OTHER -> <<"N", "o", "n", "e">>

\* A variable field of a template; fieldType "" or text <<>> stand for an
\* absent or empty entry.
Field(fieldType, text, pageNumber) ==
    [fieldType |-> fieldType, text |-> text, pageNumber |-> pageNumber]

Call(s, r, n) == [search |-> s, repl |-> r, count |-> n]

\* One iteration of "for field in variable_fields".
ApplyField(st, field, data) ==
    IF field.fieldType = "" \/ field.text = <<>> THEN st
    ELSE LET replacement == data[field.fieldType] IN
         IF Falsy(replacement) THEN st
         ELSE LET text == DisplayString(replacement)
                  far == FindAndReplacePages(st.pages, field.text, text, TRUE)
              IN [pages |-> far.pages,
                  total |-> st.total + far.count,
                  calls |-> Append(st.calls, Call(field.text, text, far.count))]

RECURSIVE ApplyFields(_, _, _, _)
ApplyFields(st, fields, data, k) ==
    IF k > Len(fields) THEN st
    ELSE ApplyFields(ApplyField(st, fields[k], data), fields, data, k + 1)

\* apply_template on an open document: pages afterwards, total_replacements
\* and the find_and_replace calls made
ApplyTemplatePages(pages, variable_fields, data) ==
    ApplyFields([pages |-> pages, total |-> 0, calls |-> <<>>], variable_fields, data, 1)

(***************************************************************************)
(* extract_text_elements and find_text                                     *)
(***************************************************************************)

SameSpan(g, h) == g.size = h.size /\ g.color = h.color /\ g.font = h.font

\* index of the last glyph of the span that starts at i
RECURSIVE SpanEnd(_, _)
SpanEnd(line, i) ==
    IF i < Len(line) /\ SameSpan(line[i], line[i + 1]) THEN SpanEnd(line, i + 1) ELSE i

\* text.strip()
RECURSIVE Strip(_)
Strip(t) ==
    IF t = <<>> THEN t
    ELSE IF Head(t) = " " THEN Strip(Tail(t))
    ELSE IF t[Len(t)] = " " THEN Strip(SubSeq(t, 1, Len(t) - 1))
    ELSE t

Element(page_num, l, i, text, g) ==
    [page |-> page_num, line |-> l, start |-> i, text |-> text,
     font |-> g.font, size |-> g.size, color |-> g.color]

RECURSIVE LineElements(_, _, _, _)
LineElements(line, page_num, l, i) ==
    IF i > Len(line) THEN <<>>
    ELSE LET e == SpanEnd(line, i)
             text == Strip(Chars(SubSeq(line, i, e)))
         IN (IF text = <<>> THEN <<>> ELSE <<Element(page_num, l, i, text, line[i])>>)
            \o LineElements(line, page_num, l, e + 1)

RECURSIVE PageElements(_, _, _)
PageElements(page, page_num, l) ==
    IF l > Len(page) THEN <<>>
    ELSE LineElements(page[l], page_num, l, 1) \o PageElements(page, page_num, l + 1)

\* extract_text_elements on an open document (page numbers 0-indexed)
RECURSIVE ExtractElements(_, _)
ExtractElements(pages, p) ==
    IF p > Len(pages) THEN <<>>
    ELSE PageElements(pages[p], p - 1, 1) \o ExtractElements(pages, p + 1)

\* font, size and color find_text reports for one rectangle
MatchStyle(glyphs) ==
    IF \E k \in 1..Len(glyphs) : glyphs[k].ch # " "
    THEN LET k == CHOOSE k \in 1..Len(glyphs) :
                    /\ glyphs[k].ch # " "
                    /\ \A j \in 1..(k - 1) : glyphs[j].ch = " "
         IN glyphs[k]
    ELSE Glyph(" ", DefaultSize, DefaultColor, "helv")

\* find_text on an open document
RECURSIVE FindMatches(_, _, _)
FindMatches(pages, s, p) ==
    IF p > Len(pages) THEN <<>>
    ELSE LET rects == SearchFor(pages[p], s)
         IN [k \in 1..Len(rects) |->
                Element(p - 1, rects[k].line, rects[k].start, s,
                        MatchStyle(SubSeq(pages[p][rects[k].line], rects[k].start,
                                          rects[k].start + Len(s) - 1)))]
            \o FindMatches(pages, s, p + 1)

(***************************************************************************)
(* DirectEditClient: the operations, each on the engine's state            *)
(***************************************************************************)

\* Bound on the number of operations of one run of the engine.
MaxOps == 3

FieldTypes == {"name", "period"}

SearchTexts == {<<"a", "b">>, <<"a">>, <<" ", "a">>}

ReplaceTexts == {<<"c">>, <<"b">>, <<"c", "a">>, <<>>}

Templates ==
    { << Field("name", <<"a", "b">>, 1), Field("period", <<"a">>, 1) >>,
      << Field("period", <<"a", "b">>, 1), Field("", <<"a">>, 1),
         Field("name", <<>>, 2), Field("name", <<"a">>, 1) >> }

Synth(name, period) == [t \in FieldTypes |-> IF t = "name" THEN name ELSE period]

SyntheticData ==
    { Synth(VStr(<<"c">>),
            VDict(<<Item("start_date", <<"1">>), Item("end_date", <<"2">>)>>)),
      Synth(VNone,
            VDict(<<Item("start", <<"1">>), Item("end", <<"2">>)>>)),
      Synth(VStr(<<>>),
            VDict(<<Item("first", <<"1">>), Item("last", <<"2">>), Item("end", <<"3">>)>>)),
      Synth(VDict(<<>>), VStr(<<"c">>)),
      Synth(VInt(0), VBool(FALSE)),
      Synth(VStr(<<"a">>), VStr(<<"b">>)),
      Synth(VInt(7),
            VDict(<<Item("end_date", <<"2">>), Item("note", <<"c">>),
                    Item("start_date", <<"1">>)>>)) }

NoArgs ==
    [path |-> "None", search |-> <<>>, repl |-> <<>>, match_style |-> TRUE,
     template |-> <<>>, synthetic_data |-> Synth(VNone, VNone)]

\* an operation that returns None or raises
NoRet == [count |-> 0, list |-> <<>>, path |-> "None"]

Snapshot == [doc |-> doc, pdf_path |-> pdf_path, files |-> files, live |-> live]

\* bookkeeping of one call: the operation, its arguments, the state it saw
Called(op, a) ==
    /\ lastOp' = op
    /\ args' = a
    /\ prev' = Snapshot

\* a guard that returns instead of raising
ReturnNoDoc ==
    /\ lastErr' = "none"
    /\ ret' = NoRet
    /\ calls' = <<>>
    /\ UNCHANGED <<files, doc, pdf_path, live, nextId>>

\* if not self.doc: raise StirlingAPIError("No document open. Call open() first.")
RaiseNoDoc ==
    /\ lastErr' = ErrNoDoc
    /\ ret' = NoRet
    /\ calls' = <<>>
    /\ UNCHANGED <<files, doc, pdf_path, live, nextId>>

\* "not self.doc"
NotDoc(d) == d = None

\* open(pdf_path); opens: whether fitz.open succeeds
open(p, opens) ==
    /\ Called("open", [NoArgs EXCEPT !.path = p])
    /\ pdf_path' = p
    /\ IF opens
       THEN /\ doc' = [id |-> nextId, pages |-> files[p].pages]
            /\ live' = live \cup {nextId}
            /\ nextId' = nextId + 1
            /\ lastErr' = "none"
       ELSE /\ lastErr' = ErrOpen
            /\ UNCHANGED <<doc, live, nextId>>
    /\ ret' = NoRet
    /\ calls' = <<>>
    /\ UNCHANGED files

\* close() without the "if self.doc:" guard
close_unguarded ==
    /\ Called("close", NoArgs)
    /\ IF ~ NotDoc(doc)
       THEN /\ live' = live \ {doc.id}
            /\ doc' = None
            /\ pdf_path' = "None"
            /\ lastErr' = "none"
       ELSE /\ lastErr' = "AttributeError"
            /\ UNCHANGED <<doc, pdf_path, live>>
    /\ ret' = NoRet
    /\ calls' = <<>>
    /\ UNCHANGED <<files, nextId>>

\* close()
close ==
    /\ Called("close", NoArgs)
    /\ IF ~ NotDoc(doc)
       THEN /\ live' = live \ {doc.id}
            /\ doc' = None
            /\ pdf_path' = "None"
       ELSE UNCHANGED <<doc, pdf_path, live>>
    /\ lastErr' = "none"
    /\ ret' = NoRet
    /\ calls' = <<>>
    /\ UNCHANGED <<files, nextId>>

\* extract_text_elements()
extract_text_elements ==
    /\ Called("extract_text_elements", NoArgs)
    /\ IF NotDoc(doc) THEN RaiseNoDoc
       ELSE /\ ret' = [NoRet EXCEPT !.list = ExtractElements(doc.pages, 1)]
            /\ lastErr' = "none"
            /\ calls' = <<>>
            /\ UNCHANGED <<files, doc, pdf_path, live, nextId>>

\* find_text(search_text)
find_text(search_text) ==
    /\ Called("find_text", [NoArgs EXCEPT !.search = search_text])
    /\ IF NotDoc(doc) THEN RaiseNoDoc
       ELSE /\ ret' = [NoRet EXCEPT !.list = FindMatches(doc.pages, search_text, 1)]
            /\ lastErr' = "none"
            /\ calls' = <<>>
            /\ UNCHANGED <<files, doc, pdf_path, live, nextId>>

\* find_and_replace(search_text, replace_text, match_style)
find_and_replace(search_text, replace_text, match_style) ==
    /\ Called("find_and_replace",
              [NoArgs EXCEPT !.search = search_text, !.repl = replace_text,
                             !.match_style = match_style])
    /\ IF NotDoc(doc) THEN RaiseNoDoc
       ELSE LET far == FindAndReplacePages(doc.pages, search_text, replace_text, match_style)
            IN /\ doc' = [doc EXCEPT !.pages = far.pages]
               /\ ret' = [NoRet EXCEPT !.count = far.count]
               /\ calls' = <<Call(search_text, replace_text, far.count)>>
               /\ lastErr' = "none"
               /\ UNCHANGED <<files, pdf_path, live, nextId>>

\* apply_template(template, synthetic_data)
apply_template(variable_fields, data) ==
    /\ Called("apply_template",
              [NoArgs EXCEPT !.template = variable_fields, !.synthetic_data = data])
    /\ IF NotDoc(doc) THEN RaiseNoDoc
       ELSE LET st == ApplyTemplatePages(doc.pages, variable_fields, data)
            IN /\ doc' = [doc EXCEPT !.pages = st.pages]
               /\ ret' = [NoRet EXCEPT !.count = st.total]
               /\ calls' = st.calls
               /\ lastErr' = "none"
               /\ UNCHANGED <<files, pdf_path, live, nextId>>

\* the path save(output_path) writes to
SavePath(output_path, path) ==
    IF output_path = "None"
    THEN (IF path # "None" THEN EditedPath(path) ELSE "output.pdf")
    ELSE output_path

\* save(output_path); writable: whether self.doc.save succeeds
save(output_path, writable) ==
    /\ Called("save", [NoArgs EXCEPT !.path = output_path])
    /\ IF NotDoc(doc) THEN RaiseNoDoc
       ELSE LET target == SavePath(output_path, pdf_path)
            IN /\ IF writable
                  THEN /\ files' = [files EXCEPT
                                      ![target] = [ok |-> TRUE, pages |-> doc.pages]]
                       /\ ret' = [NoRet EXCEPT !.path = target]
                       /\ lastErr' = "none"
                  ELSE /\ lastErr' = ErrSave
                       /\ ret' = NoRet
                       /\ UNCHANGED files
               /\ calls' = <<>>
               /\ UNCHANGED <<doc, pdf_path, live, nextId>>

\* one more operation of a run of the engine
Ran ==
    /\ nops < MaxOps
    /\ nops' = nops + 1

NoTemplate == [type |-> "None", variable_fields |-> <<>>]

NoRendered == [p \in Paths |-> <<>>]

BatchIdle ==
    /\ bpc = "idle"
    /\ num_variations = 0
    /\ doc_type = "None"
    /\ template_path = "None"
    /\ template = NoTemplate
    /\ is_direct_edit = FALSE
    /\ pdf_json = <<>>
    /\ bi = 0
    /\ synthetic_data = Synth(VNone, VNone)
    /\ exc = "none"
    /\ results = <<>>
    /\ failed = <<>>
    /\ used = <<>>
    /\ rendered = NoRendered

\* DirectEditClient() with no path
EngineInit ==
    /\ files = InitFiles
    /\ doc = None
    /\ pdf_path = "None"
    /\ live = {}
    /\ nextId = 1
    /\ lastOp = "init"
    /\ args = NoArgs
    /\ lastErr = "none"
    /\ ret = NoRet
    /\ calls = <<>>
    /\ prev = [doc |-> None, pdf_path |-> "None", files |-> InitFiles, live |-> {}]
    /\ nops = 0

\* the Collision Resolver's variables when it is not the component under check
CollisionIdle ==
    /\ elements = <<>>
    /\ page_width = 0
    /\ page_height = 0
    /\ resolved = <<>>
    /\ cpc = "idle"

Init == EngineInit /\ CollisionIdle /\ BatchIdle /\ RebuildIdle

\* any caller of the engine: one operation at a time, in any order
Next ==
    \/ \E p \in OpenPaths : Ran /\ open(p, files[p].ok) /\ UNCHANGED otherVars
    \/ Ran /\ close /\ UNCHANGED otherVars
    \/ Ran /\ extract_text_elements /\ UNCHANGED otherVars
    \/ \E s \in SearchTexts : Ran /\ find_text(s) /\ UNCHANGED otherVars
    \/ \E s \in SearchTexts, r \in ReplaceTexts, m \in BOOLEAN :
          Ran /\ find_and_replace(s, r, m) /\ UNCHANGED otherVars
    \/ \E t \in Templates, sd \in SyntheticData :
          Ran /\ apply_template(t, sd) /\ UNCHANGED otherVars
    \/ \E p \in {"None", "out.pdf"}, w \in BOOLEAN :
          Ran /\ save(p, w) /\ UNCHANGED otherVars

Spec == Init /\ [][Next]_vars

CollisionInit == CollisionInputs /\ EngineInit /\ BatchIdle /\ RebuildIdle

CollisionNext == ResolveCollisions /\ UNCHANGED <<engineVars, batchVars, rebuildVars>>

SpacingInit ==
    SpacingInputs /\ EngineInit /\ BatchIdle /\ FontIdle /\ RenderIdle /\ LlmIdle

SpacingNext ==
    \/ AddWordSpacing /\ UNCHANGED <<engineVars, batchVars, fontVars, renderVars, llmVars>>
    \/ AddWordSpacingAgain /\ UNCHANGED <<engineVars, batchVars, fontVars, renderVars, llmVars>>

SpecSpacing == SpacingInit /\ [][SpacingNext]_vars

FontInit ==
    FontInputs /\ EngineInit /\ CollisionIdle /\ BatchIdle /\ SpacingIdle /\ RenderIdle
        /\ LlmIdle

FontNext ==
    \/ GetSafeFont /\ UNCHANGED <<collisionVars, engineVars, batchVars, spacingVars, renderVars,
                                         llmVars>>
    \/ GetSafeFontAgain /\ UNCHANGED <<collisionVars, engineVars, batchVars, spacingVars, renderVars,
                                         llmVars>>

SpecFont == FontInit /\ [][FontNext]_vars

SpecCollision == CollisionInit /\ [][CollisionNext]_vars

(***************************************************************************)
(* JSONEditor.replace_text                                                 *)
(***************************************************************************)

\* the extracted representation of the source: {pages: [{textElements: [...]}]}
SourceJson ==
    << [textElements |-> << [text |-> <<"a", "b">>], [text |-> <<"a">>] >>],
       [textElements |-> << [text |-> <<"a", "a", "b">>] >>] >>

\* repr of a dict, one token per key: {'k': 'v', ...}
RECURSIVE ItemsRepr(_)
ItemsRepr(d) ==
    IF d = <<>> THEN <<>>
    ELSE <<"'", d[1].k, "'", ":", " ", "'">> \o d[1].v \o <<"'">>
         \o (IF Len(d) > 1 THEN <<",", " ">> \o ItemsRepr(Tail(d)) ELSE <<>>)

\* str(synthetic_value)
PyStr(v) ==
    CASE v.kind = "str" -> v.s
      [] v.kind = "int" -> IntStr(v.n)
      [] v.kind = "bool" -> IF v.b THEN <<"T", "r", "u", "e">>
                                   ELSE <<"F", "a", "l", "s", "e">>
      [] v.kind = "dict" -> <<"{">> \o ItemsRepr(v.d) \o <<"}">>
      [] OTHER -> <<"N", "o", "n", "e">>

\* index of the first text element whose stripped text is the stripped
\* original text, 0 if there is none
FirstMatch(text_elements, original_text) ==
    IF \E k \in 1..Len(text_elements) :
            Strip(text_elements[k].text) = Strip(original_text)
    THEN CHOOSE k \in 1..Len(text_elements) :
            /\ Strip(text_elements[k].text) = Strip(original_text)
            /\ \A j \in 1..(k - 1) : Strip(text_elements[j].text) # Strip(original_text)
    ELSE 0

\* One iteration of "for var_elem in page_elements" on page page_num.
ReplaceVarElem(json, page_num, var_elem, sd) ==
    LET synthetic_value == sd[var_elem.fieldType] IN
    IF var_elem.fieldType = "" \/ synthetic_value.kind = "none" THEN json
    ELSE LET k == FirstMatch(json[page_num].textElements, var_elem.text) IN
         IF k = 0 THEN json
         ELSE [json EXCEPT ![page_num].textElements[k].text = PyStr(synthetic_value)]

RECURSIVE ReplaceOnPage(_, _, _, _)
ReplaceOnPage(json, page_num, page_elements, sd) ==
    IF page_elements = <<>> THEN json
    ELSE ReplaceOnPage(ReplaceVarElem(json, page_num, Head(page_elements), sd),
                       page_num, Tail(page_elements), sd)

\* the keys of elements_by_page, in the order of their first field
RECURSIVE PageOrder(_, _)
PageOrder(fields, seen) ==
    IF fields = <<>> THEN <<>>
    ELSE IF Head(fields).pageNumber \in seen THEN PageOrder(Tail(fields), seen)
    ELSE <<Head(fields).pageNumber>>
         \o PageOrder(Tail(fields), seen \cup {Head(fields).pageNumber})

FieldsOfPage(fields, page_num) ==
    SelectSeq(fields, LAMBDA f : f.pageNumber = page_num)

RECURSIVE ReplacePages(_, _, _, _)
ReplacePages(json, order, fields, sd) ==
    IF order = <<>> THEN json
    ELSE IF Head(order) - 1 >= Len(json)
         THEN ReplacePages(json, Tail(order), fields, sd)
         ELSE ReplacePages(ReplaceOnPage(json, Head(order), FieldsOfPage(fields, Head(order)), sd),
                           Tail(order), fields, sd)

\* replace_text editing the pdf_json it is given
replace_text_in_place(json, variable_fields, sd) ==
    LET edited == ReplacePages(json, PageOrder(variable_fields, {}), variable_fields, sd)
    IN [modified_json |-> edited, pdf_json |-> edited]

\* replace_text(pdf_json, template, synthetic_data): what it returns and what
\* the pdf_json it was given holds afterwards (it edits copy.deepcopy(pdf_json))
replace_text(json, variable_fields, sd) ==
    [modified_json |-> ReplacePages(json, PageOrder(variable_fields, {}), variable_fields, sd),
     pdf_json |-> json]

(***************************************************************************)
(* PipelineOrchestrator.process_batch                                      *)
(***************************************************************************)

\* Bound on num_variations.
MaxVariations == 3

\* process_batch(input_path, output_dir, num_variations, template_path) is called
BatchInit ==
    /\ bpc = "start"
    /\ num_variations \in 1..MaxVariations
    /\ doc_type \in {"digital_pdf", "scanned_pdf"}
    /\ template_path \in {"None", "direct_edit", "reconstruction"}
    /\ template = NoTemplate
    /\ is_direct_edit = FALSE
    /\ pdf_json = <<>>
    /\ bi = 0
    /\ synthetic_data = Synth(VNone, VNone)
    /\ exc = "none"
    /\ results = <<>>
    /\ failed = <<>>
    /\ used = <<>>
    /\ rendered = NoRendered

engineData == <<files, doc, pdf_path, live, nextId, lastOp, args, lastErr, ret, calls, prev>>

\* an exit that does not close
exit_without_close ==
    /\ exc' = exc
    /\ UNCHANGED engineData

\* __exit__: self.close(); return False (an exception in flight stays in flight)
__exit__ ==
    /\ close
    /\ exc' = exc

\* template = self._load_template(template_path)
LoadTemplate ==
    /\ bpc = "start"
    /\ template_path # "None"
    /\ \E t \in Templates : template' = [type |-> template_path, variable_fields |-> t]
    /\ bpc' = "phase2"
    /\ UNCHANGED <<num_variations, doc_type, template_path, is_direct_edit, pdf_json, bi,
                   synthetic_data, exc, results, failed, used, rendered>>
    /\ UNCHANGED engineVars

\* with DirectEditClient(input_path) as client: (template extraction)
ExtractEnter ==
    /\ bpc = "start"
    /\ template_path = "None"
    /\ doc_type = "digital_pdf"
    /\ \E opens \in BOOLEAN :
          /\ open("in.pdf", opens /\ files["in.pdf"].ok)
          /\ IF opens /\ files["in.pdf"].ok
             THEN bpc' = "extract" /\ exc' = "none"
             ELSE bpc' = "raised" /\ exc' = ErrOpen
    /\ UNCHANGED <<num_variations, doc_type, template_path, template, is_direct_edit,
                   pdf_json, bi, synthetic_data, results, failed, used, rendered>>
    /\ UNCHANGED nops

\* the body of that block: extract_text_elements, classify, enrich
ExtractBody ==
    /\ bpc = "extract"
    /\ extract_text_elements
    /\ \E t \in Templates, classified \in BOOLEAN :
          IF classified
          THEN /\ template' = [type |-> "direct_edit", variable_fields |-> t]
               /\ exc' = "none"
          ELSE /\ exc' = "LLMError"
               /\ UNCHANGED template
    /\ bpc' = "extract_exit"
    /\ UNCHANGED <<num_variations, doc_type, template_path, is_direct_edit, pdf_json, bi,
                   synthetic_data, results, failed, used, rendered>>
    /\ UNCHANGED nops

\* leaving that block
ExtractExit ==
    /\ bpc = "extract_exit"
    /\ __exit__
    /\ bpc' = IF exc' = "none" THEN "phase2" ELSE "raised"
    /\ UNCHANGED <<num_variations, doc_type, template_path, template, is_direct_edit,
                   pdf_json, bi, synthetic_data, results, failed, used, rendered>>
    /\ UNCHANGED nops

\* the else branch: _ensure_searchable, pdf_to_json, classify
ExtractByReconstruction ==
    /\ bpc = "start"
    /\ template_path = "None"
    /\ doc_type # "digital_pdf"
    /\ \E t \in Templates, extracted \in BOOLEAN :
          IF extracted
          THEN /\ template' = [type |-> "reconstruction", variable_fields |-> t]
               /\ bpc' = "phase2"
               /\ exc' = "none"
          ELSE /\ exc' = "StirlingAPIError: extraction failed"
               /\ bpc' = "raised"
               /\ UNCHANGED template
    /\ UNCHANGED <<num_variations, doc_type, template_path, is_direct_edit, pdf_json, bi,
                   synthetic_data, results, failed, used, rendered>>
    /\ UNCHANGED engineVars

\* _save_template of an extracted template, is_direct_edit, and the pdf_json
\* of the reconstruction route
Phase2 ==
    /\ bpc = "phase2"
    /\ \E done \in BOOLEAN :
          IF done \/ (template_path # "None" /\ template.type = "direct_edit")
          THEN /\ is_direct_edit' = (template.type = "direct_edit")
               /\ pdf_json' = IF template.type = "direct_edit" THEN pdf_json ELSE SourceJson
               /\ bpc' = "loop"
               /\ exc' = "none"
          ELSE /\ exc' = "OSError"
               /\ bpc' = "raised"
               /\ UNCHANGED <<is_direct_edit, pdf_json>>
    /\ bi' = 0
    /\ UNCHANGED <<num_variations, doc_type, template_path, template, synthetic_data,
                   results, failed, used, rendered>>
    /\ UNCHANGED engineVars

\* synthetic_data = self.generator.generate(template)
Generate ==
    /\ bpc = "loop"
    /\ bi < num_variations
    /\ \/ \E sd \in SyntheticData :
            /\ synthetic_data' = sd
            /\ bpc' = IF is_direct_edit THEN "construct" ELSE "reconstruct"
            /\ exc' = "none"
       \/ /\ exc' = "LLMError"
          /\ bpc' = "except"
          /\ UNCHANGED synthetic_data
    /\ UNCHANGED <<num_variations, doc_type, template_path, template, is_direct_edit,
                   pdf_json, bi, results, failed, used, rendered>>
    /\ UNCHANGED engineVars

\* with DirectEditClient(input_path) as client: (variation i)
VariationEnter ==
    /\ bpc = "construct"
    /\ \E opens \in BOOLEAN :
          /\ open("in.pdf", opens /\ files["in.pdf"].ok)
          /\ IF opens /\ files["in.pdf"].ok
             THEN bpc' = "apply" /\ exc' = "none"
             ELSE bpc' = "except" /\ exc' = ErrOpen
    /\ UNCHANGED <<num_variations, doc_type, template_path, template, is_direct_edit,
                   pdf_json, bi, synthetic_data, results, failed, used, rendered>>
    /\ UNCHANGED nops

\* client.apply_template(template, synthetic_data)
VariationApply ==
    /\ bpc = "apply"
    /\ \/ /\ apply_template(template.variable_fields, synthetic_data)
          /\ bpc' = "save"
          /\ exc' = "none"
       \/ /\ exc' = "RuntimeError"
          /\ bpc' = "exit"
          /\ UNCHANGED engineData
    /\ UNCHANGED <<num_variations, doc_type, template_path, template, is_direct_edit,
                   pdf_json, bi, synthetic_data, results, failed, used, rendered>>
    /\ UNCHANGED nops

\* client.save(output_path)
VariationSave ==
    /\ bpc = "save"
    /\ \E writable \in BOOLEAN :
          /\ save(VariationPaths[bi + 1], writable)
          /\ exc' = IF writable THEN "none" ELSE ErrSave
    /\ bpc' = "exit"
    /\ UNCHANGED <<num_variations, doc_type, template_path, template, is_direct_edit,
                   pdf_json, bi, synthetic_data, results, failed, used, rendered>>
    /\ UNCHANGED nops

\* leaving the block, then results.append(output_path)
VariationExit ==
    /\ bpc = "exit"
    /\ __exit__
    /\ IF exc' = "none"
       THEN /\ results' = Append(results, VariationPaths[bi + 1])
            /\ used' = Append(used, synthetic_data)
            /\ bi' = bi + 1
            /\ bpc' = "loop"
       ELSE /\ bpc' = "except"
            /\ UNCHANGED <<results, used, bi>>
    /\ UNCHANGED <<num_variations, doc_type, template_path, template, is_direct_edit,
                   pdf_json, synthetic_data, failed, rendered>>
    /\ UNCHANGED nops

\* modified_json = self.json_editor.replace_text(...); json_to_pdf; results.append
VariationReconstruct ==
    /\ bpc = "reconstruct"
    /\ LET rt == replace_text(pdf_json, template.variable_fields, synthetic_data) IN
       /\ pdf_json' = rt.pdf_json
       /\ \E written \in BOOLEAN :
             IF written
             THEN /\ rendered' = [rendered EXCEPT ![VariationPaths[bi + 1]] = rt.modified_json]
                  /\ results' = Append(results, VariationPaths[bi + 1])
                  /\ used' = Append(used, synthetic_data)
                  /\ bi' = bi + 1
                  /\ bpc' = "loop"
                  /\ exc' = "none"
             ELSE /\ exc' = "StirlingAPIError: JSON to PDF generation failed"
                  /\ bpc' = "except"
                  /\ UNCHANGED <<rendered, results, used, bi>>
    /\ UNCHANGED <<num_variations, doc_type, template_path, template, is_direct_edit,
                   synthetic_data, failed>>
    /\ UNCHANGED engineVars

\* a handler that gives up on the remaining variations
VariationAbort ==
    /\ bpc = "except"
    /\ failed' = Append(failed, bi)
    /\ exc' = "none"
    /\ bpc' = "done"
    /\ UNCHANGED <<num_variations, doc_type, template_path, template, is_direct_edit,
                   pdf_json, bi, synthetic_data, results, used, rendered>>
    /\ UNCHANGED engineVars

\* except Exception as e: logger.error(...); continue
VariationExcept ==
    /\ bpc = "except"
    /\ failed' = Append(failed, bi)
    /\ exc' = "none"
    /\ bi' = bi + 1
    /\ bpc' = "loop"
    /\ UNCHANGED <<num_variations, doc_type, template_path, template, is_direct_edit,
                   pdf_json, synthetic_data, results, used, rendered>>
    /\ UNCHANGED engineVars

\* return results
BatchReturn ==
    /\ bpc = "loop"
    /\ bi >= num_variations
    /\ bpc' = "done"
    /\ UNCHANGED <<num_variations, doc_type, template_path, template, is_direct_edit,
                   pdf_json, bi, synthetic_data, exc, results, failed, used, rendered>>
    /\ UNCHANGED engineVars

BatchNext ==
    \/ LoadTemplate /\ UNCHANGED <<collisionVars, rebuildVars>>
    \/ ExtractEnter /\ UNCHANGED <<collisionVars, rebuildVars>>
    \/ ExtractBody /\ UNCHANGED <<collisionVars, rebuildVars>>
    \/ ExtractExit /\ UNCHANGED <<collisionVars, rebuildVars>>
    \/ ExtractByReconstruction /\ UNCHANGED <<collisionVars, rebuildVars>>
    \/ Phase2 /\ UNCHANGED <<collisionVars, rebuildVars>>
    \/ Generate /\ UNCHANGED <<collisionVars, rebuildVars>>
    \/ VariationEnter /\ UNCHANGED <<collisionVars, rebuildVars>>
    \/ VariationApply /\ UNCHANGED <<collisionVars, rebuildVars>>
    \/ VariationSave /\ UNCHANGED <<collisionVars, rebuildVars>>
    \/ VariationExit /\ UNCHANGED <<collisionVars, rebuildVars>>
    \/ VariationReconstruct /\ UNCHANGED <<collisionVars, rebuildVars>>
    \/ VariationExcept /\ UNCHANGED <<collisionVars, rebuildVars>>
    \/ BatchReturn /\ UNCHANGED <<collisionVars, rebuildVars>>

BatchStart == BatchInit /\ EngineInit /\ CollisionIdle /\ RebuildIdle

SpecBatch == BatchStart /\ [][BatchNext]_vars


-----------------------------------------------------------------------------
(***************************************************************************)
(* pdf_to_json and json_to_pdf                                             *)
(*                                                                         *)
(* Lengths are in tenths of a unit, as for the Collision Resolver.  The    *)
(* placeholder "(cid:N)" of an embedded glyph is one character of a text.  *)
(***************************************************************************)

Cid == "(cid:13)"

\* a word of page.extract_words
Word(text, x0, top, x1, bottom, size, fontname) ==
    [text |-> text, x0 |-> x0, top |-> top, x1 |-> x1, bottom |-> bottom,
     size |-> size, fontname |-> fontname]

\* an object of page.lines or page.rects
Stroke(x0, top, x1, bottom) == [x0 |-> x0, top |-> top, x1 |-> x1, bottom |-> bottom]

\* a page of pdfplumber
SourcePage(w, h, words, lines, rects, curves) ==
    [width |-> w, height |-> h, words |-> words, lines |-> lines, rects |-> rects,
     curves |-> curves]

ArialBold == <<"A", "r", "i", "a", "l", "-", "B", "o", "l", "d", "M", "T">>
TimesItalic == <<"T", "i", "m", "e", "s", "N", "e", "w", "R", "o", "m", "a", "n", "P", "S", "-", "I", "t", "a", "l", "i", "c", "M", "T">>

EmptyPage == SourcePage(400, 300, <<>>, <<>>, <<>>, <<>>)

\* three words that crowd one line, a blank word and a word of placeholders
TextPage ==
    SourcePage(2000, 2000,
               << Word(<<"a", "b">>, 0, 0, 100, 100, 10, ArialBold),
                  Word(<<" ">>, 100, 0, 110, 100, 10, ArialBold),
                  Word(<<"a">>, 100, 10, 200, 110, 10, TimesItalic),
                  Word(<<Cid, Cid>>, 300, 0, 320, 100, 10, ArialBold),
                  Word(<<"c", Cid, " ">>, 240, 0, 340, 100, 0, TimesItalic) >>,
               <<>>, <<>>, <<>>)

\* graphics of every kind, with curves of three, one and no points
GraphicsPage ==
    SourcePage(400, 300,
               << Word(<<"b">>, 0, 0, 50, 100, 12, ArialBold) >>,
               << Stroke(0, 10, 100, 10) >>,
               << Stroke(0, 0, 50, 20), Stroke(10, 10, 30, 40) >>,
               << <<<<0, 0>>, <<10, 10>>, <<20, 0>>>>, <<<<5, 5>>>>, <<>> >>)

\* graphics whose curves all have two points or more
CurvesPage ==
    SourcePage(400, 300,
               << Word(<<"a">>, 0, 0, 50, 100, 12, ArialBold),
                  Word(<<"b">>, 60, 0, 110, 100, 12, ArialBold) >>,
               << Stroke(0, 10, 100, 10), Stroke(0, 15, 100, 15) >>,
               << Stroke(0, 0, 50, 20), Stroke(60, 0, 110, 20) >>,
               << <<<<0, 0>>, <<10, 10>>>>, <<<<0, 0>>, <<10, 10>>, <<20, 0>>>> >>)

Sources ==
    { <<>>, <<EmptyPage>>, <<TextPage>>, <<CurvesPage>>, <<GraphicsPage, EmptyPage>>,
      <<TextPage, CurvesPage>>, <<EmptyPage, GraphicsPage, TextPage>> }

\* re.sub(r'\(cid:\d+\)', '', text).strip()
CleanText(text) == Strip(SelectSeq(text, LAMBDA c : c # Cid))

\* text_elem of a word; id is its index in words
TextOfWord(word, k) ==
    [id |-> k, text |-> CleanText(word.text), x |-> word.x0, y |-> word.top,
     width |-> word.x1 - word.x0, height |-> word.bottom - word.top,
     fontSize |-> IF word.size # 0 THEN word.size ELSE 12, fontName |-> word.fontname]

\* the text elements of the words k.., words that are empty after cleaning left out
RECURSIVE TextElements(_, _)
TextElements(words, k) ==
    IF k > Len(words) THEN <<>>
    ELSE (IF CleanText(words[k].text) = <<>> THEN <<>> ELSE <<TextOfWord(words[k], k)>>)
         \o TextElements(words, k + 1)

\* line_elem and rect_elem
StrokeElement(o) == [x0 |-> o.x0, y0 |-> o.top, x1 |-> o.x1, y1 |-> o.bottom]

\* curve_elem: only curves with pts are kept
CurveElements(curves) == SelectSeq(curves, LAMBDA pts : pts # <<>>)

\* page_data of one page
PageData(page, page_num) ==
    [pageNumber |-> page_num, width |-> page.width, height |-> page.height,
     textElements |-> TextElements(page.words, 1),
     lineElements |-> [k \in 1..Len(page.lines) |-> StrokeElement(page.lines[k])],
     rectElements |-> [k \in 1..Len(page.rects) |-> StrokeElement(page.rects[k])],
     curveElements |-> CurveElements(page.curves)]

\* pdf_to_json(pdf_path)["pages"]
pdf_to_json(pages) == [n \in 1..Len(pages) |-> PageData(pages[n], n)]

\* a call on the canvas or a pass over the text: kind, index of the page,
\* index of the element, its text, its numbers
Event(kind, page, idx, text, geom) ==
    [kind |-> kind, page |-> page, idx |-> idx, text |-> text, geom |-> geom,
     font |-> "", given |-> <<>>, result |-> <<>>]

\* a pass over the text of a page: the list it was given and the list it returned
PassEvent(kind, page, given, result) ==
    [kind |-> kind, page |-> page, idx |-> 0, text |-> <<>>, geom |-> <<>>,
     font |-> "", given |-> given, result |-> result]

\* Coordinates are floats: here floats of FloatBits significant bits, so that
\* a difference that does not fit is rounded to the nearest float, ties to even.
FloatBits == 8

RECURSIVE Pow2(_)
Pow2(n) == IF n = 0 THEN 1 ELSE 2 * Pow2(n - 1)

\* the number of low bits a non-negative value loses
RECURSIVE LostBits(_, _)
LostBits(v, e) == IF v < Pow2(FloatBits + e) THEN e ELSE LostBits(v, e + 1)

\* the float nearest to a non-negative value
RoundTo(v) ==
    LET e == LostBits(v, 0)
        q == v \div Pow2(e)
        r == v % Pow2(e)
    IN IF e = 0 THEN v
       ELSE IF 2 * r > Pow2(e) \/ (2 * r = Pow2(e) /\ q % 2 = 1) THEN (q + 1) * Pow2(e)
       ELSE q * Pow2(e)

\* a - b in floats
FloatSub(a, b) == IF a >= b THEN RoundTo(a - b) ELSE 0 - RoundTo(b - a)

\* "page_h - y": top-left origin to bottom-left origin
FlipY(y, page_h) == FloatSub(page_h, y)

\* a page painted with the height of the first page, the one the canvas was
\* created with
PageWithFirstHeight(pages, n) == [pages[n] EXCEPT !.height = pages[1].height]

\* page_data of "for page_data in pages", with its own width and height
PageToPaint(pages, n) == pages[n]

\* the rectangles painted last one first
RectEventsReversed(page_data, n) ==
    [k \in 1..Len(page_data.rectElements) |->
        LET j == Len(page_data.rectElements) + 1 - k
            r == page_data.rectElements[j] IN
        Event("rect", n, j, <<>>,
              <<r.x0, FlipY(r.y1, page_data.height), FloatSub(r.x1, r.x0),
                FloatSub(FlipY(r.y0, page_data.height), FlipY(r.y1, page_data.height))>>)]

\* c.rect(x0, y0, x1 - x0, y1 - y0) with y0 = page_h - y1_top, y1 = page_h - y0_top
RectEvents(page_data, n) ==
    [k \in 1..Len(page_data.rectElements) |->
        LET r == page_data.rectElements[k] IN
        Event("rect", n, k, <<>>,
              <<r.x0, FlipY(r.y1, page_data.height), FloatSub(r.x1, r.x0),
                FloatSub(FlipY(r.y0, page_data.height), FlipY(r.y1, page_data.height))>>)]

\* c.line(x0, y0, x1, y1) with y = page_h - y_top
LineEvents(page_data, n) ==
    [k \in 1..Len(page_data.lineElements) |->
        LET l == page_data.lineElements[k] IN
        Event("line", n, k, <<>>,
              <<l.x0, FlipY(l.y0, page_data.height), l.x1, FlipY(l.y1, page_data.height)>>)]

\* path.moveTo(x, page_h - y), path.lineTo(x, page_h - y): x1, y1, x2, y2, ..
RECURSIVE PathPoints(_, _)
PathPoints(points, page_h) ==
    IF points = <<>> THEN <<>>
    ELSE <<Head(points)[1], FlipY(Head(points)[2], page_h)>>
         \o PathPoints(Tail(points), page_h)

\* c.drawPath for the curves k.. ; a curve of fewer than two points is skipped
RECURSIVE CurveEvents(_, _, _)
CurveEvents(page_data, n, k) ==
    IF k > Len(page_data.curveElements) THEN <<>>
    ELSE (IF Len(page_data.curveElements[k]) < 2 THEN <<>>
          ELSE <<Event("curve", n, k, <<>>,
                       PathPoints(page_data.curveElements[k], page_data.height))>>)
         \o CurveEvents(page_data, n, k + 1)

\* c.setFont, c.drawString for the elements k.. ; an element without text is skipped
RECURSIVE TextEvents(_, _, _, _)
TextEvents(elems, page_h, n, k) ==
    IF k > Len(elems) THEN <<>>
    ELSE (IF elems[k].text = <<>> THEN <<>>
          ELSE <<[Event("text", n, elems[k].id, elems[k].text,
                        <<elems[k].x, FloatSub(FlipY(elems[k].y, page_h), elems[k].height),
                          elems[k].fontSize>>)
                  EXCEPT !.font = _get_safe_font(elems[k].fontName)]>>)
         \o TextEvents(elems, page_h, n, k + 1)

RenderInputs ==
    /\ source \in Sources
    /\ json_data = <<>>
    /\ json_edited = FALSE
    /\ resolve_collisions \in BOOLEAN
    /\ add_word_spacing \in BOOLEAN
    /\ rpc = "source"
    /\ page_i = 0
    /\ page_text = <<>>
    /\ events = <<>>
    /\ output = NoOutput


\* pdf_to_json(pdf_path)
Extract ==
    /\ rpc = "source"
    /\ json_data' = pdf_to_json(source)
    /\ rpc' = "json"
    /\ UNCHANGED <<source, json_edited, resolve_collisions, add_word_spacing, page_i,
                   page_text, events, output>>

EditTexts == { <<>>, <<"z">> }

\* an edit of the representation between extraction and reconstruction: the
\* text of the first element of a page is replaced
EditJson ==
    /\ rpc = "json"
    /\ ~json_edited
    /\ \E n \in 1..Len(json_data), t \in EditTexts :
          /\ json_data[n].textElements # <<>>
          /\ json_data' = [json_data EXCEPT ![n].textElements[1].text = t]
    /\ json_edited' = TRUE
    /\ UNCHANGED <<source, resolve_collisions, add_word_spacing, rpc, page_i,
                   page_text, events, output>>

\* json_to_pdf up to the loop over the pages: no pages is an error
RenderBegin ==
    /\ rpc = "json"
    /\ IF json_data = <<>>
       THEN /\ rpc' = "raised"
            /\ page_i' = 0
       ELSE /\ rpc' = "rects"
            /\ page_i' = 1
    /\ UNCHANGED <<source, json_data, json_edited, resolve_collisions, add_word_spacing,
                   page_text, events, output>>

\* the loop over rectElements
DrawRects ==
    /\ rpc = "rects"
    /\ events' = events \o RectEvents(PageToPaint(json_data, page_i), page_i)
    /\ rpc' = "lines"
    /\ UNCHANGED <<source, json_data, json_edited, resolve_collisions, add_word_spacing,
                   page_i, page_text, output>>

\* the loop over lineElements
DrawLines ==
    /\ rpc = "lines"
    /\ events' = events \o LineEvents(PageToPaint(json_data, page_i), page_i)
    /\ rpc' = "curves"
    /\ UNCHANGED <<source, json_data, json_edited, resolve_collisions, add_word_spacing,
                   page_i, page_text, output>>

\* the loop over curveElements, then text_elements = page_data["textElements"]
DrawCurves ==
    /\ rpc = "curves"
    /\ events' = events \o CurveEvents(PageToPaint(json_data, page_i), page_i, 1)
    /\ page_text' = json_data[page_i].textElements
    /\ rpc' = "resolve"
    /\ UNCHANGED <<source, json_data, json_edited, resolve_collisions, add_word_spacing,
                   page_i, output>>

\* if resolve_collisions and text_elements: the Collision Resolver
ResolvePass ==
    /\ rpc = "resolve"
    /\ IF resolve_collisions /\ page_text # <<>>
       THEN LET result == _resolve_text_collisions(page_text, json_data[page_i].width,
                                                   json_data[page_i].height) IN
            /\ page_text' = result
            /\ events' = Append(events, PassEvent("resolve", page_i, page_text, result))
       ELSE UNCHANGED <<page_text, events>>
    /\ rpc' = "spacing"
    /\ UNCHANGED <<source, json_data, json_edited, resolve_collisions, add_word_spacing,
                   page_i, output>>

\* whether text_elements is still the list of json_data: the Collision
\* Resolver returns copies
SameListAsJson == ~(resolve_collisions /\ json_data[page_i].textElements # <<>>)

\* a Word-Spacer given the stored list of the page, whatever ran before
SpacerInputStored(stored, current) == stored

\* the list the Word-Spacer is given: text_elements, which the Collision
\* Resolver's result was assigned to
SpacerInput(stored, current) == current

\* if add_word_spacing and text_elements: the Word-Spacer, which changes the
\* elements of its list in place
SpacingPass ==
    /\ rpc = "spacing"
    /\ IF add_word_spacing /\ page_text # <<>>
       THEN LET given == SpacerInput(json_data[page_i].textElements, page_text)
                result == _add_word_spacing(given, json_data[page_i].width) IN
            /\ page_text' = result
            /\ events' = Append(events, PassEvent("spacing", page_i, given, result))
            /\ json_data' = IF SameListAsJson
                            THEN [json_data EXCEPT ![page_i].textElements = result]
                            ELSE json_data
       ELSE UNCHANGED <<page_text, events, json_data>>
    /\ rpc' = "text"
    /\ UNCHANGED <<source, json_edited, resolve_collisions, add_word_spacing, page_i, output>>

\* the loop over text_elements
DrawText ==
    /\ rpc = "text"
    /\ events' = events \o TextEvents(page_text, PageToPaint(json_data, page_i).height, page_i, 1)
    /\ rpc' = "show"
    /\ UNCHANGED <<source, json_data, json_edited, resolve_collisions, add_word_spacing,
                   page_i, page_text, output>>

\* a canvas that would close only the pages something was painted on
ShowPageIfPainted(page_data, n) ==
    IF page_data.textElements = <<>> /\ page_data.rectElements = <<>>
       /\ page_data.lineElements = <<>> /\ page_data.curveElements = <<>>
    THEN <<>>
    ELSE <<Event("showPage", n, 0, <<>>, <<>>)>>

\* c.showPage(): closes the page, painted on or not
ShowPageEvent(page_data, n) == <<Event("showPage", n, 0, <<>>, <<>>)>>

\* c.showPage() and the next page_data, if any
ShowPage ==
    /\ rpc = "show"
    /\ events' = events \o ShowPageEvent(json_data[page_i], page_i)
    /\ page_text' = <<>>
    /\ IF page_i < Len(json_data)
       THEN /\ page_i' = page_i + 1
            /\ rpc' = "rects"
       ELSE /\ page_i' = page_i
            /\ rpc' = "save"
    /\ UNCHANGED <<source, json_data, json_edited, resolve_collisions, add_word_spacing,
                   output>>

\* the pages closed by showPage, in the order of the calls
ShownPages(evs) ==
    LET shown == SelectSeq(evs, LAMBDA e : e.kind = "showPage") IN
    [k \in 1..Len(shown) |-> shown[k].page]

\* c.save(): the file is written, or the error is raised as StirlingAPIError
Save(written) ==
    /\ rpc = "save"
    /\ IF written
       THEN /\ output' = [ok |-> TRUE, pages |-> ShownPages(events)]
            /\ rpc' = "returned"
       ELSE /\ output' = output
            /\ rpc' = "raised"
    /\ UNCHANGED <<source, json_data, json_edited, resolve_collisions, add_word_spacing,
                   page_i, page_text, events>>

RenderInit ==
    RenderInputs /\ EngineInit /\ CollisionIdle /\ BatchIdle /\ SpacingIdle /\ FontIdle
        /\ LlmIdle

RenderNext ==
    \/ Extract /\ UNCHANGED nonRenderVars
    \/ EditJson /\ UNCHANGED nonRenderVars
    \/ RenderBegin /\ UNCHANGED nonRenderVars
    \/ DrawRects /\ UNCHANGED nonRenderVars
    \/ DrawLines /\ UNCHANGED nonRenderVars
    \/ DrawCurves /\ UNCHANGED nonRenderVars
    \/ ResolvePass /\ UNCHANGED nonRenderVars
    \/ SpacingPass /\ UNCHANGED nonRenderVars
    \/ DrawText /\ UNCHANGED nonRenderVars
    \/ ShowPage /\ UNCHANGED nonRenderVars
    \/ \E w \in BOOLEAN :
          Save(w) /\ UNCHANGED nonRenderVars

SpecRender == RenderInit /\ [][RenderNext]_vars

(***************************************************************************)
(* GitHubModelsClient: classification post-processing                      *)
(*                                                                         *)
(* A null pageNumber is 0.  One control character stands for all of them;  *)
(* the ellipsis is not among the characters of the texts.                  *)
(***************************************************************************)

\* fontSize above this is considered a header
HEADER_THRESHOLD == 18

Ctrl == "\\x01"

\* re.sub(r'\s+', ' ', text)
RECURSIVE CollapseSpaces(_)
CollapseSpaces(t) ==
    IF Len(t) < 2 THEN t
    ELSE IF t[1] = " " /\ t[2] = " " THEN CollapseSpaces(Tail(t))
    ELSE <<t[1]>> \o CollapseSpaces(Tail(t))

\* _sanitize_text(text)
_sanitize_text(t) == Strip(CollapseSpaces(SelectSeq(t, LAMBDA c : c # Ctrl)))

\* all(c in "…._-" for c in text)
IsPlaceholder(t) == \A k \in 1..Len(t) : t[k] \in {".", "_", "-"}

\* text.isdigit()
IsDigit(t) == t # <<>> /\ \A k \in 1..Len(t) : \E d \in 1..Len(Digits) : Digits[d] = t[k]

\* page.get("pageNumber") or page.get("number") or 1
NumberOfPage(page) == IF page.pageNumber # 0 THEN page.pageNumber ELSE 1

\* the simplified elements of the elements k.. of a page
RECURSIVE SimplifyElements(_, _, _)
SimplifyElements(elems, page_number, k) ==
    IF k > Len(elems) THEN <<>>
    ELSE LET text == _sanitize_text(Strip(elems[k].text))
             keep == /\ Strip(elems[k].text) # <<>>
                     /\ text # <<>>
                     /\ ~(elems[k].fontSize > HEADER_THRESHOLD)
                     /\ ~IsPlaceholder(text)
                     /\ ~(Len(text) < 3 /\ ~IsDigit(text))
         IN (IF keep
             THEN <<[text |-> text, fontSize |-> elems[k].fontSize,
                     pageNumber |-> page_number]>>
             ELSE <<>>)
            \o SimplifyElements(elems, page_number, k + 1)

\* _simplify_json_for_classification(pdf_json)[0]["pages"]
_simplify_json_for_classification(pages) ==
    [n \in 1..Len(pages) |->
        [number |-> NumberOfPage(pages[n]),
         textElements |-> SimplifyElements(pages[n].textElements, NumberOfPage(pages[n]), 1)]]

\* the pages of simplified_json that hold the text
PagesWith(simplified_json, text) ==
    { n \in 1..Len(simplified_json) :
        \E k \in 1..Len(simplified_json[n].textElements) :
            /\ Strip(simplified_json[n].textElements[k].text) # <<>>
            /\ Strip(simplified_json[n].textElements[k].text) = text }

\* text_to_page[text], 0 when the text is not a key: a later page overwrites
\* the entry of an earlier one
text_to_page(simplified_json, text) ==
    LET with == PagesWith(simplified_json, text) IN
    IF with = {} THEN 0
    ELSE simplified_json[CHOOSE n \in with : \A m \in with : n >= m].number

\* one iteration of "for field in variable_fields"
FillField(field, simplified_json) ==
    IF field.pageNumber = 0
    THEN LET text == Strip(field.text) IN
         IF text_to_page(simplified_json, text) # 0
         THEN [field EXCEPT !.pageNumber = text_to_page(simplified_json, text)]
         ELSE [field EXCEPT !.pageNumber = 1]
    ELSE field

\* _fill_missing_page_numbers(variable_fields, simplified_json)
_fill_missing_page_numbers(fields, simplified_json) ==
    [k \in 1..Len(fields) |-> FillField(fields[k], simplified_json)]

SourceText(t, fs) == [text |-> t, fontSize |-> fs]

SourceRep(n, elems) == [pageNumber |-> n, textElements |-> elems]

\* the representations classified
ClassJsons ==
    { << SourceRep(1, << SourceText(<<" ", "a", "b", "c", " ">>, 12), SourceText(<<"a", "b">>, 12),
                        SourceText(<<"T", "i", "t", "l", "e">>, 24),
                        SourceText(<<"a", " ", Ctrl, " ", "b", "c">>, 12) >>),
         SourceRep(2, << SourceText(<<"a", "b", "c">>, 12), SourceText(<<".", ".", ".">>, 12),
                        SourceText(<<"1", "2">>, 12) >>) >>,
      << SourceRep(1, << SourceText(<<"x", "y", "z">>, 12) >>),
         SourceRep(2, << SourceText(<<"a", "b">>, 12), SourceText(<<"T", "i", "t", "l", "e">>, 24) >>),
         SourceRep(3, << SourceText(<<"a", "b", "c">>, 10) >>) >> }

\* the texts of the fields the model answers with
AnswerTexts ==
    { <<"a", "b", "c">>, <<" ", "a", "b", "c">>, <<"a", "b">>, <<"T", "i", "t", "l", "e">>,
      <<"a", " ", "b", "c">>, <<"1", "2">>, <<"z", "z", "z">>, <<>> }

AnswerFields == { Field("name", t, n) : t \in AnswerTexts, n \in {0, 1, 2} }

\* Bound on the number of fields of an answer.
MaxFields == 2

FieldLists(max) == UNION { [1..n -> AnswerFields] : n \in 1..max }

\* classify_content(pdf_json) is called
ClassifyInputs ==
    /\ class_json \in ClassJsons
    /\ simplified = <<>>
    /\ llm_fields = <<>>
    /\ filled_fields = <<>>
    /\ kpc = "start"

\* simplified_json, headers_excluded = self._simplify_json_for_classification(pdf_json)
SimplifyJson ==
    /\ kpc = "start"
    /\ simplified' = _simplify_json_for_classification(class_json)
    /\ kpc' = "simplified"
    /\ UNCHANGED <<class_json, llm_fields, filled_fields>>

\* variable_fields = result.get("variable_fields", []): whatever the model answered
ModelAnswers ==
    /\ kpc = "simplified"
    /\ llm_fields' \in FieldLists(MaxFields)
    /\ kpc' = "answered"
    /\ UNCHANGED <<class_json, simplified, filled_fields>>

\* result["variable_fields"] = self._fill_missing_page_numbers(variable_fields,
\*                                                             simplified_json)
FillMissingPageNumbers ==
    /\ kpc = "answered"
    /\ filled_fields' = _fill_missing_page_numbers(llm_fields, simplified)
    /\ kpc' = "done"
    /\ UNCHANGED <<class_json, simplified, llm_fields>>

nonLlmVars == <<collisionVars, engineVars, batchVars, spacingVars, fontVars, renderVars>>

nonClassifyVars == <<nonLlmVars, chatVars>>

ClassifyInit ==
    ClassifyInputs /\ EngineInit /\ CollisionIdle /\ BatchIdle /\ SpacingIdle /\ FontIdle
        /\ RenderIdle /\ ChatIdle

ClassifyNext ==
    \/ SimplifyJson /\ UNCHANGED nonClassifyVars
    \/ ModelAnswers /\ UNCHANGED nonClassifyVars
    \/ FillMissingPageNumbers /\ UNCHANGED nonClassifyVars

SpecClassify == ClassifyInit /\ [][ClassifyNext]_vars

(***************************************************************************)
(* GitHubModelsClient.chat_completion and the methods that call it         *)
(***************************************************************************)

\* the largest max_retries tried
MaxRetries == 3

\* what one request can come to: a response whose content is JSON, one whose
\* content is other text, one without content (len(content) raises TypeError
\* inside the try), RateLimitError, any other exception
Outcomes == {"json", "text", "no_content", "RateLimitError", "APIError"}

\* a try body that never reaches "return content"
NeverCompletes(outcome) == FALSE

\* the try body reaches "return content"
Completes(outcome) == outcome \in {"json", "text"}

\* the callers of chat_completion
Callers == {"classify_content", "generate_synthetic_data"}

\* 2 ** n
RECURSIVE TwoTo(_)
TwoTo(n) == IF n = 0 THEN 1 ELSE 2 * TwoTo(n - 1)

\* the wait before the next attempt: 2 ** attempt * 10 after RateLimitError,
\* 2 ** attempt after another exception
WaitTime(outcome, n) == IF outcome = "RateLimitError" THEN TwoTo(n) * 10 ELSE TwoTo(n)

\* the message of the LLMError of the last attempt
LastError(outcome) ==
    IF outcome = "RateLimitError" THEN "Rate limit exceeded after retries"
    ELSE "LLM request failed"

ChatInputs ==
    /\ chat_caller \in Callers
    /\ max_retries \in 0..MaxRetries
    /\ attempt = 0
    /\ requests = <<>>
    /\ sleeps = <<>>
    /\ chat_ret = NoAnswer
    /\ caller_calls = 0
    /\ caller_out = "none"
    /\ hpc = "start"

\* response_content = self.chat_completion(.., max_retries=max_retries)
CallChat ==
    /\ hpc = "start"
    /\ caller_calls' = caller_calls + 1
    /\ attempt' = 0
    /\ hpc' = "loop"
    /\ UNCHANGED <<chat_caller, max_retries, requests, sleeps, chat_ret, caller_out>>

\* one pass of "for attempt in range(max_retries)": the request, then return
\* content, or sleep and continue, or raise LLMError on the last attempt
Attempt(outcome) ==
    /\ hpc = "loop"
    /\ attempt < max_retries
    /\ requests' = Append(requests, outcome)
    /\ IF Completes(outcome)
       THEN /\ chat_ret' = [raised |-> FALSE, value |-> outcome]
            /\ hpc' = "returned"
            /\ UNCHANGED <<attempt, sleeps>>
       ELSE IF attempt < max_retries - 1
       THEN /\ sleeps' = Append(sleeps, WaitTime(outcome, attempt))
            /\ attempt' = attempt + 1
            /\ UNCHANGED <<chat_ret, hpc>>
       ELSE /\ chat_ret' = [raised |-> TRUE, value |-> LastError(outcome)]
            /\ hpc' = "raised"
            /\ UNCHANGED <<attempt, sleeps>>
    /\ UNCHANGED <<chat_caller, max_retries, caller_calls, caller_out>>

\* the loop ends without a return or a raise: raise LLMError("Max retries exceeded")
LoopExit ==
    /\ hpc = "loop"
    /\ attempt >= max_retries
    /\ chat_ret' = [raised |-> TRUE, value |-> "Max retries exceeded"]
    /\ hpc' = "raised"
    /\ UNCHANGED <<chat_caller, max_retries, attempt, requests, sleeps, caller_calls,
                   caller_out>>

\* the error of the caller: ClassificationError or SynthesisError
CallerError == IF chat_caller = "classify_content" THEN "ClassificationError" ELSE "SynthesisError"

\* the caller parses the content and returns, or raises its own error for
\* content that is not JSON and for LLMError
CallerEnds ==
    /\ hpc \in {"returned", "raised"}
    /\ caller_out' = IF ~chat_ret.raised /\ chat_ret.value = "json" THEN "result"
                     ELSE CallerError
    /\ hpc' = "done"
    /\ UNCHANGED <<chat_caller, max_retries, attempt, requests, sleeps, chat_ret,
                   caller_calls>>

nonChatVars == <<nonLlmVars, classifyVars>>

ChatInit ==
    ChatInputs /\ EngineInit /\ CollisionIdle /\ BatchIdle /\ SpacingIdle /\ FontIdle
        /\ RenderIdle /\ ClassifyIdle

ChatNext ==
    \/ CallChat /\ UNCHANGED nonChatVars
    \/ \E outcome \in Outcomes :
          Attempt(outcome) /\ UNCHANGED nonChatVars
    \/ LoopExit /\ UNCHANGED nonChatVars
    \/ CallerEnds /\ UNCHANGED nonChatVars

SpecChat == ChatInit /\ [][ChatNext]_vars

(***************************************************************************)
(* C1                                                                      *)
(***************************************************************************)

DistinctPositions(s) ==
    \A a, b \in 1..Len(s) : a # b => (s[a].x # s[b].x \/ s[a].y # s[b].y)

\* the boxes of a and b, enlarged by max(max(fontSize_a, fontSize_b) * 0.3, 3), overlap
MarginedOverlap(a, b) ==
    BoxesOverlap(a.x, a.y, a.width, a.height, a.fontSize, b)

NoMarginedOverlap(s) ==
    \A a, b \in 1..Len(s) : a # b => ~ MarginedOverlap(s[a], s[b])

\* C1: after _resolve_text_collisions returns, no two distinct returned
\* elements have overlapping margined boxes, for every input list whose
\* elements have pairwise distinct original positions.
C1_CollisionInvariant ==
    (cpc = "done" /\ DistinctPositions(elements)) => NoMarginedOverlap(resolved)

(***************************************************************************)
(* C2                                                                      *)
(***************************************************************************)

GuardedOps ==
    {"extract_text_elements", "find_text", "find_and_replace", "apply_template", "save"}

EngineUnchanged ==
    /\ doc = prev.doc
    /\ pdf_path = prev.pdf_path
    /\ files = prev.files
    /\ live = prev.live

C5_FailedOpenLeavesUnopened ==
    (lastOp = "open" /\ lastErr # "none") => (lastErr = ErrOpen /\ doc = None)

(***************************************************************************)
(* C6                                                                      *)
(***************************************************************************)

\* the places <<page, line, index>> at which s occurs in the document
Occurrences(pages, s) ==
    { pli \in UNION { UNION { { <<p, l, i>> : i \in 1..Len(pages[p][l]) } :
                              l \in 1..Len(pages[p]) } : p \in 1..Len(pages) } :
        MatchAt(Chars(pages[pli[1]][pli[2]]), s, pli[3]) }

HitsBefore(occ, p, l, i) == Cardinality({ o \in occ : o[1] = p /\ o[2] = l /\ o[3] < i })

Covered(occ, p, l, j, s) ==
    \E o \in occ : o[1] = p /\ o[2] = l /\ o[3] <= j /\ j < o[3] + Len(s)

\* every occurrence of s in before is, in after, the text r and nothing else moved
ReplacedInPlace(before, after, s, r) ==
    LET occ == Occurrences(before, s)
        delta == Len(r) - Len(s)
    IN /\ Len(after) = Len(before)
       /\ \A p \in 1..Len(before) :
            /\ Len(after[p]) = Len(before[p])
            /\ \A l \in 1..Len(before[p]) :
                 /\ Len(after[p][l]) = Len(before[p][l])
                        + delta * HitsBefore(occ, p, l, Len(before[p][l]) + 1)
                 /\ \A j \in 1..Len(before[p][l]) :
                      LET at == j + delta * HitsBefore(occ, p, l, j) IN
                      IF <<p, l, j>> \in occ
                      THEN at + Len(r) - 1 <= Len(after[p][l])
                           /\ SubSeq(Chars(after[p][l]), at, at + Len(r) - 1) = r
                      ELSE Covered(occ, p, l, j, s) \/ after[p][l][at] = before[p][l][j]

SharesNoChar(r, s) == \A i \in 1..Len(r), j \in 1..Len(s) : r[i] # s[j]

RECURSIVE SumCounts(_)
SumCounts(cs) == IF cs = <<>> THEN 0 ELSE Head(cs).count + SumCounts(Tail(cs))

\* the entry is absent (None) or empty ("" or {})
MissingOrEmpty(v) ==
    \/ v.kind = "none"
    \/ v.kind = "str" /\ v.s = <<>>
    \/ v.kind = "dict" /\ v.d = <<>>

\* the fields of the template that name a fieldType and a text and have a
\* replacement in the synthesis mapping
RECURSIVE FieldsWithReplacement(_, _)
FieldsWithReplacement(variable_fields, sd) ==
    IF variable_fields = <<>> THEN <<>>
    ELSE (IF /\ Head(variable_fields).fieldType # ""
             /\ Head(variable_fields).text # <<>>
             /\ ~ MissingOrEmpty(sd[Head(variable_fields).fieldType])
          THEN <<Head(variable_fields)>> ELSE <<>>)
         \o FieldsWithReplacement(Tail(variable_fields), sd)

\* C7: apply_template returns the sum of the counts of the replace calls it
\* makes and makes one call per field that has a replacement, in the order of
\* the fields; a field with no entry or an empty entry causes no call and no
\* error, and the fields after it are still processed.
C7_OneCallPerField ==
    (lastOp = "apply_template" /\ prev.doc # None) =>
        LET fs == FieldsWithReplacement(args.template, args.synthetic_data) IN
        /\ lastErr = "none"
        /\ ret.count = SumCounts(calls)
        /\ Len(calls) = Len(fs)
        /\ \A k \in 1..Len(calls) : calls[k].search = fs[k].text

(***************************************************************************)
(* C8                                                                      *)
(***************************************************************************)

\* the fields apply_template makes a call for, in order
RECURSIVE FieldsCalled(_, _)
FieldsCalled(variable_fields, sd) ==
    IF variable_fields = <<>> THEN <<>>
    ELSE (IF /\ Head(variable_fields).fieldType # ""
             /\ Head(variable_fields).text # <<>>
             /\ ~ Falsy(sd[Head(variable_fields).fieldType])
          THEN <<Head(variable_fields)>> ELSE <<>>)
         \o FieldsCalled(Tail(variable_fields), sd)

Values(d) == [k \in 1..Len(d) |-> d[k].v]

\* the strings of vs, in order, with one space between neighbours
RECURSIVE SpaceJoined(_)
SpaceJoined(vs) ==
    IF vs = <<>> THEN <<>>
    ELSE IF Len(vs) = 1 THEN vs[1]
    ELSE SpaceJoined(SubSeq(vs, 1, Len(vs) - 1)) \o <<" ">> \o vs[Len(vs)]

DateRange(a, b) == a \o <<" ", "-", " ">> \o b

\* what C8 states for a structure d
ShownAsStated(d) ==
    IF HasKey(d, "start_date") /\ HasKey(d, "end_date")
    THEN DateRange(Lookup(d, "start_date"), Lookup(d, "end_date"))
    ELSE SpaceJoined(Values(d))

\* what the amended C8 states for a structure d
ShownAmended(d) ==
    IF HasKey(d, "start_date") /\ HasKey(d, "end_date")
    THEN DateRange(Lookup(d, "start_date"), Lookup(d, "end_date"))
    ELSE IF HasKey(d, "start") /\ HasKey(d, "end")
    THEN DateRange(Lookup(d, "start"), Lookup(d, "end"))
    ELSE SpaceJoined(Values(d))

\* C8 as stated: a structured value is substituted as "{start} - {end}" when
\* it has start_date and end_date, and as its sub-values joined by single
\* spaces in stored order in every other case.
C8_FlattenAsStated ==
    (lastOp = "apply_template" /\ lastErr = "none") =>
        LET fs == FieldsCalled(args.template, args.synthetic_data) IN
        /\ Len(calls) = Len(fs)
        /\ \A k \in 1..Len(calls) :
             LET v == args.synthetic_data[fs[k].fieldType] IN
             v.kind = "dict" => calls[k].repl = ShownAsStated(v.d)

\* C8 amended: a structured value is substituted as "{start} - {end}" when it
\* has start_date and end_date or, failing that, start and end, and as its
\* sub-values joined by single spaces in stored order in every other case.
C8_Flatten ==
    (lastOp = "apply_template" /\ lastErr = "none") =>
        LET fs == FieldsCalled(args.template, args.synthetic_data) IN
        /\ Len(calls) = Len(fs)
        /\ \A k \in 1..Len(calls) :
             LET v == args.synthetic_data[fs[k].fieldType] IN
             v.kind = "dict" => calls[k].repl = ShownAmended(v.d)

\* the structure {start: "1", end: "2"} substituted as "1 - 2"
C8_Witness ==
    /\ lastOp = "apply_template"
    /\ lastErr = "none"
    /\ HasKey(args.synthetic_data["period"].d, "start")
    /\ ~ HasKey(args.synthetic_data["period"].d, "start_date")
    /\ \E k \in 1..Len(calls) : calls[k].repl = <<"1", " ", "-", " ", "2">>

(***************************************************************************)
(* C3                                                                      *)
(***************************************************************************)

\* the positions of process_batch inside a with-block of a DirectEditClient
InBlock == {"extract", "extract_exit", "apply", "save", "exit"}

HandleDiscipline ==
    /\ Cardinality(live) <= 1
    /\ bpc \notin InBlock => (live = {} /\ doc = None)

ExitCloses ==
    /\ (bpc \in InBlock /\ bpc' \notin InBlock) => (lastOp' = "close" /\ doc' = None)
    /\ (bpc \in {"extract_exit", "exit"} /\ bpc' # bpc) =>
          /\ exc' = exc
          /\ (exc # "none") => bpc' \in {"raised", "except"}

RECURSIVE Succeeded(_, _)
Succeeded(n, fs) ==
    IF n = 0 THEN <<>>
    ELSE Succeeded(n - 1, fs)
         \o (IF \E k \in 1..Len(fs) : fs[k] = n - 1 THEN <<>> ELSE <<VariationPaths[n]>>)

Written(path) == IF is_direct_edit THEN files[path].ok ELSE rendered[path] # <<>>

\* C9: a failed variation is recorded and left out of the result and the
\* loop goes on: at every turn of the loop the results are the outputs of the
\* variations so far that did not fail, in order, each of them written;
\* process_batch returns after N variations, successes plus failures being N,
\* and it raises only before the first variation.
C9_FailureIsolated ==
    /\ bpc \in {"loop", "done"} =>
          /\ results = Succeeded(bi, failed)
          /\ Len(results) + Len(failed) = bi
          /\ \A k \in 1..Len(results) : Written(results[k])
          /\ \A k \in 1..Len(failed) : ~ Written(VariationPaths[failed[k] + 1])
    /\ bpc = "done" => bi = num_variations
    /\ bpc = "raised" => (bi = 0 /\ results = <<>> /\ failed = <<>>)

\* three variations of which the second failed
C9_Witness ==
    /\ bpc = "done"
    /\ num_variations = 3
    /\ failed = <<1>>
    /\ results = <<VariationPaths[1], VariationPaths[3]>>

(***************************************************************************)
(* C10                                                                     *)
(***************************************************************************)

\* C10: every variation is made from the unmodified source: the input file
\* and the pdf_json of the batch never change, and each output is the source
\* with the replacements of its own synthetic data and of no other.
C10_FromUnmodifiedSource ==
    /\ files["in.pdf"] = InitFiles["in.pdf"]
    /\ (bpc \in {"loop", "reconstruct", "except", "done"} /\ ~ is_direct_edit) =>
          pdf_json = SourceJson
    /\ bpc \in {"loop", "done"} =>
          \A k \in 1..Len(results) :
             IF is_direct_edit
             THEN files[results[k]].pages =
                     ApplyTemplatePages(SourcePages, template.variable_fields, used[k]).pages
             ELSE rendered[results[k]] =
                     replace_text(SourceJson, template.variable_fields, used[k]).modified_json

\* two reconstructed variations with different replacements
C10_Witness ==
    /\ bpc = "done"
    /\ ~ is_direct_edit
    /\ Len(results) >= 2
    /\ rendered[results[1]] # SourceJson
    /\ rendered[results[2]] # SourceJson
    /\ rendered[results[1]] # rendered[results[2]]

(***************************************************************************)
(* C11                                                                     *)
(***************************************************************************)

OneToN(n) == [k \in 1..n |-> k]

\* C11: when json_to_pdf returns for a Document of n >= 1 pages, the output
\* holds exactly n pages, one per input Page and in input order, whatever the
\* options and whether or not the pages have elements.
C11_OnePagePerInputPage ==
    (rpc = "returned" /\ Len(json_data) >= 1) =>
        /\ output.ok
        /\ output.pages = OneToN(Len(json_data))

HasNoElements(page_data) ==
    /\ page_data.textElements = <<>>
    /\ page_data.rectElements = <<>>
    /\ page_data.lineElements = <<>>
    /\ page_data.curveElements = <<>>

\* json_to_pdf returned for three pages, the first without elements, with
\* both passes enabled
C11_Witness ==
    /\ rpc = "returned"
    /\ Len(json_data) = 3
    /\ HasNoElements(json_data[1])
    /\ resolve_collisions
    /\ add_word_spacing
    /\ output.pages = <<1, 2, 3>>

\* json_to_pdf returned for a single page without elements
C11_WitnessSingleEmpty ==
    /\ rpc = "returned"
    /\ Len(json_data) = 1
    /\ HasNoElements(json_data[1])
    /\ output.pages = <<1>>

(***************************************************************************)
(* C12                                                                     *)
(***************************************************************************)

PaintKinds == {"rect", "line", "curve", "text"}

\* the place of a kind in the paint order
Rank(kind) ==
    CASE kind = "rect" -> 1
      [] kind = "line" -> 2
      [] kind = "curve" -> 3
      [] kind = "text" -> 4
      [] OTHER -> 0

\* page n has been closed
Shown(n) == \E i \in 1..Len(events) : events[i].kind = "showPage" /\ events[i].page = n

\* element k of the given kind of page n was painted, once
PaintedOnce(kind, n, k) ==
    Cardinality({ i \in 1..Len(events) :
                    events[i].kind = kind /\ events[i].page = n /\ events[i].idx = k }) = 1

\* C12: on every page the rectangles are painted first, then the lines, then
\* the curves, each group in its stored order, and text only after all the
\* graphics of the page; a closed page has all its rectangles, all its lines
\* and all its curves (of two points or more) painted.
C12_PaintOrder ==
    /\ \A i, j \in 1..Len(events) :
          (i < j /\ events[i].page = events[j].page
             /\ events[i].kind \in PaintKinds /\ events[j].kind \in PaintKinds) =>
              /\ Rank(events[i].kind) <= Rank(events[j].kind)
              /\ (events[i].kind = events[j].kind /\ events[i].kind # "text") =>
                     events[i].idx < events[j].idx
    /\ \A n \in 1..Len(json_data) :
          Shown(n) =>
              /\ \A k \in 1..Len(json_data[n].rectElements) : PaintedOnce("rect", n, k)
              /\ \A k \in 1..Len(json_data[n].lineElements) : PaintedOnce("line", n, k)
              /\ \A k \in 1..Len(json_data[n].curveElements) :
                    Len(json_data[n].curveElements[k]) >= 2 => PaintedOnce("curve", n, k)

\* a page with two rectangles, two lines, two curves and two texts was
\* painted and closed, text last
C12_Witness ==
    \E n \in 1..Len(json_data) :
        /\ Shown(n)
        /\ \A kind \in PaintKinds :
              Cardinality({ i \in 1..Len(events) :
                              events[i].kind = kind /\ events[i].page = n }) = 2

(***************************************************************************)
(* C13                                                                     *)
(***************************************************************************)

\* the positions in the log of the runs of a pass over page n
Runs(kind, n) == { i \in 1..Len(events) : events[i].kind = kind /\ events[i].page = n }

\* the passes of page n are over: its text is being painted or was
TextStage(n) == Shown(n) \/ (page_i = n /\ rpc \in {"text", "show"})

\* both passes, when they ran on page n, ran once, the Collision Resolver
\* first and the Word-Spacer on its output, both before any text of the page
PassOrder(n) ==
    /\ Cardinality(Runs("resolve", n)) <= 1
    /\ Cardinality(Runs("spacing", n)) <= 1
    /\ \A i \in Runs("resolve", n), j \in Runs("spacing", n) :
          i < j /\ events[j].given = events[i].result
    /\ \A i \in Runs("resolve", n) \cup Runs("spacing", n), j \in Runs("text", n) : i < j

\* C13 as stated: on every page the Collision Resolver runs exactly when
\* resolve_collisions is set and the Word-Spacer exactly when add_word_spacing
\* is set, the Collision Resolver first, the Word-Spacer on its output, both
\* before the first text of the page.
C13_PassesIffOptions ==
    \A n \in 1..Len(json_data) :
        /\ TextStage(n) =>
              /\ (Runs("resolve", n) # {}) <=> resolve_collisions
              /\ (Runs("spacing", n) # {}) <=> add_word_spacing
        /\ PassOrder(n)

\* C13, amended: on every page the Collision Resolver runs exactly when
\* resolve_collisions is set and the page has a text element, the Word-Spacer
\* exactly when add_word_spacing is set and the page has a text element; the
\* Collision Resolver runs first, the Word-Spacer on its output, both before
\* the first text of the page.
C13_PassesIffOptionsAndText ==
    \A n \in 1..Len(json_data) :
        /\ TextStage(n) =>
              /\ (Runs("resolve", n) # {}) <=>
                     (resolve_collisions /\ json_data[n].textElements # <<>>)
              /\ (Runs("spacing", n) # {}) <=>
                     (add_word_spacing /\ json_data[n].textElements # <<>>)
        /\ PassOrder(n)

\* both passes ran on a closed page, the Collision Resolver moved an element,
\* the Word-Spacer moved another, and the text of the page was painted
C13_Witness ==
    \E n \in 1..Len(json_data) :
        /\ Shown(n)
        /\ \E i \in Runs("resolve", n), j \in Runs("spacing", n) :
              /\ events[i].result # events[i].given
              /\ events[j].given = events[i].result
              /\ events[j].result # events[j].given
        /\ Runs("text", n) # {}

(***************************************************************************)
(* C14                                                                     *)
(***************************************************************************)

\* r holds the elements of e, each exactly once, changed at most in x and y
SameElements(e, r) ==
    /\ Len(r) = Len(e)
    /\ \A i \in 1..Len(e) : \E k \in 1..Len(r) : r[k].id = i
    /\ \A k \in 1..Len(r) :
          /\ r[k].id \in 1..Len(e)
          /\ r[k] = [elements[r[k].id] EXCEPT !.x = r[k].x, !.y = r[k].y]

SortedByYX(r) == \A k \in 1..(Len(r) - 1) : ~ KeyLess(r[k + 1], r[k])

\* C14 as stated: the list _resolve_text_collisions returns holds exactly the
\* elements of its input, each changed at most in x and y, and is sorted by
\* (y, x) ascending.
C14_SameElementsSorted ==
    cpc = "done" => (SameElements(elements, resolved) /\ SortedByYX(resolved))


\* the ids of a list, in order
Ids(r) == [k \in 1..Len(r) |-> r[k].id]

\* C14 amended: the list _resolve_text_collisions returns holds exactly the
\* elements of its input, each changed at most in x and y, in the ascending
\* (y, x) order of their input positions (equal keys in input order); the
\* adjusted positions need not be in that order.
C14_SameElementsInputOrder ==
    cpc = "done" =>
        /\ SameElements(elements, resolved)
        /\ Ids(resolved) = Ids(SortByYX(elements))
        /\ SortedByYX([k \in 1..Len(resolved) |-> elements[resolved[k].id]])

\* three elements, all moved, that come back out of (y, x) order
C14_Witness ==
    /\ cpc = "done"
    /\ Len(resolved) = 3
    /\ DistinctPositions(elements)
    /\ Ids(resolved) # <<1, 2, 3>>
    /\ ~ SortedByYX(resolved)

(***************************************************************************)
(* C15                                                                     *)
(***************************************************************************)

\* the resolver's lists after the first k elements of the sorted input
RECURSIVE StateAfter(_)
StateAfter(k) ==
    IF k = 0 THEN [resolved |-> SortByYX(elements), occupied |-> <<>>]
    ELSE CollisionStep(StateAfter(k - 1), k, page_width, page_height)

\* the occupied boxes the candidate c overlaps (with margin)
Hits(c, occupied) ==
    { k \in 1..Len(occupied) :
        BoxesOverlap(c.x, c.y, c.width, c.height, c.fontSize, occupied[k]) }

\* the vertical overlap is more than half the candidate's height
MoreThanHalf(c, o) == 2 * YOverlapAmount(c.y, c.height, o) > c.height

RightOf(c, o) == o.x + o.width + Margin(c.fontSize, o.fontSize)

BelowOf(c, o) == o.y + o.height + Margin(c.fontSize, o.fontSize)

\* what C15 asks of step i; cut tells whether a target position may be cut
\* back by the page bounds
StepAsStated(i, cut) ==
    LET b == StateAfter(i - 1)
        a == StateAfter(i)
        c == b.resolved[i]
        bm == BaseMargin(c.fontSize)
        sameLine == { k \in Hits(c, b.occupied) : MoreThanHalf(c, b.occupied[k]) }
        stacked == Hits(c, b.occupied) \ sameLine
        toX == SetMax({ RightOf(c, b.occupied[k]) : k \in sameLine })
        down == SetMax({ BelowOf(c, b.occupied[k]) : k \in stacked }) - c.y
        fitsX == toX <= page_width - c.width - bm
        fitsY(j) == b.resolved[j].y + down <= page_height - b.resolved[j].height - bm
    IN /\ \A j \in 1..Len(b.resolved) : j # i => a.resolved[j].x = b.resolved[j].x
       /\ \A j \in 1..(i - 1) : a.resolved[j].y = b.resolved[j].y
       /\ sameLine = {} => a.resolved[i].x = c.x
       /\ (sameLine # {} /\ (cut => fitsX)) => a.resolved[i].x = toX
       /\ stacked = {} => \A j \in i..Len(b.resolved) : a.resolved[j].y = b.resolved[j].y
       /\ stacked # {} =>
             \A j \in i..Len(b.resolved) :
                (cut => fitsY(j)) => a.resolved[j].y = b.resolved[j].y + down

InsidePage(e) ==
    /\ 0 <= e.x
    /\ e.x + e.width + BaseMargin(e.fontSize) <= page_width
    /\ 0 <= e.y
    /\ e.y + e.height + BaseMargin(e.fontSize) <= page_height

\* C16: after the pass every element the resolver has shifted lies inside the
\* page with its own margin: 0 <= x, x + width + margin <= pageWidth, 0 <= y
\* and y + height + margin <= pageHeight (for inputs that lie inside it).
C16_ShiftedStayInside ==
    (cpc = "done" /\ \A i \in 1..Len(elements) : InsidePage(elements[i])) =>
        \A k \in 1..Len(resolved) :
            (resolved[k].x # elements[resolved[k].id].x
               \/ resolved[k].y # elements[resolved[k].id].y) => InsidePage(resolved[k])

(***************************************************************************)
(* C17                                                                     *)
(***************************************************************************)

\* C17: the Word-Spacer is idempotent: called on the list it has just
\* returned, with the same page width, it changes no element's x.
C17_SpacingIdempotent ==
    wpc = "twice" => \A k \in 1..Len(spaced) : respaced[k].x = spaced[k].x

(***************************************************************************)
(* C18                                                                     *)
(***************************************************************************)

\* the pairs <<left neighbour, element>> of the lines of the input, by index
Neighbours ==
    LET lines == GroupLines(elements, 1, <<>>) IN
    UNION { LET idx == SortByX(lines[g].indices, elements) IN
            { <<idx[j - 1], idx[j]>> : j \in 2..Len(idx) } : g \in 1..Len(lines) }

Gap(elems, pair) == elems[pair[2]].x - (elems[pair[1]].x + elems[pair[1]].width)

\* no x of the result was cut back to page_width - width - 2
NoClamping == \A k \in 1..Len(spaced) : spaced[k].x < page_width - spaced[k].width - 20

\* C18: absent clamping, after the pass every gap of a line that was below
\* max(avgFontSize * 0.4, 4) equals that minimum exactly and every gap that
\* met the minimum is unchanged.
C18_ExactDeficit ==
    (wpc = "once" /\ Len(elements) >= 2 /\ NoClamping) =>
        \A pair \in Neighbours :
            LET min_space == MinSpace(elements[pair[1]].fontSize, elements[pair[2]].fontSize)
            IN IF Gap(elements, pair) < min_space
               THEN Gap(spaced, pair) = min_space
               ELSE Gap(spaced, pair) = Gap(elements, pair)

(***************************************************************************)
(* C19                                                                     *)
(***************************************************************************)

\* the number of calls of a kind made for page n
PaintedCount(kind, n) == Cardinality(Runs(kind, n))

\* the strings of a list of text elements, the strings painted on page n
TextSet(elems) == { elems[k].text : k \in 1..Len(elems) }
PaintedTextSet(n) == { events[i].text : i \in Runs("text", n) }

\* C19: a page extracted by pdf_to_json and reconstructed by json_to_pdf, not
\* edited and with both passes disabled, has as many text runs, rectangles,
\* lines and curves painted as the extracted representation holds for it, and
\* the set of the painted strings is the set of the extracted strings.
C19_RoundTripCounts ==
    (~json_edited /\ ~resolve_collisions /\ ~add_word_spacing) =>
        \A n \in 1..Len(json_data) :
            Shown(n) =>
                /\ PaintedCount("text", n) = Len(json_data[n].textElements)
                /\ PaintedCount("rect", n) = Len(json_data[n].rectElements)
                /\ PaintedCount("line", n) = Len(json_data[n].lineElements)
                /\ PaintedCount("curve", n) = Len(json_data[n].curveElements)
                /\ PaintedTextSet(n) = TextSet(json_data[n].textElements)

(***************************************************************************)
(* C20                                                                     *)
(***************************************************************************)

\* the fixed enumeration of render fonts
RenderFonts ==
    {"Helvetica", "Helvetica-Bold", "Helvetica-Oblique", "Helvetica-BoldOblique",
     "Times-Roman", "Times-Bold", "Times-Italic", "Times-BoldItalic",
     "Courier", "Courier-Bold", "Courier-Oblique", "Courier-BoldOblique",
     "Symbol", "ZapfDingbats"}

\* the words that name a family or a style
FontWords ==
    { <<"h", "e", "l", "v", "e", "t", "i", "c", "a">>,
      <<"a", "r", "i", "a", "l">>,
      <<"t", "i", "m", "e", "s">>,
      <<"c", "o", "u", "r", "i", "e", "r">>,
      <<"s", "y", "m", "b", "o", "l">>,
      <<"z", "a", "p", "f", "d", "i", "n", "g", "b", "a", "t", "s">>,
      <<"b", "o", "l", "d">>,
      <<"i", "t", "a", "l", "i", "c">>,
      <<"o", "b", "l", "i", "q", "u", "e">> }

NoFamilyNoStyle(name) ==
    \A w \in FontWords : ~ Within(w, Without(Without(LowerAll(name), " "), "-"))

\* C20: for every non-empty font name _get_safe_font returns one font of the
\* fixed enumeration, the same one on every call; "Arial-BoldMT" gives
\* Helvetica-Bold, "TimesNewRomanPS-ItalicMT" gives Times-Italic, and a name
\* with no family and no style gives Helvetica.
C20_SafeFontTotal ==
    /\ fpc \in {"once", "twice"} =>
          /\ safe_font \in RenderFonts
          /\ font_name = <<"A", "r", "i", "a", "l", "-", "B", "o", "l", "d", "M", "T">> => safe_font = "Helvetica-Bold"
          /\ font_name = <<"T", "i", "m", "e", "s", "N", "e", "w", "R", "o", "m", "a", "n", "P", "S", "-", "I", "t", "a", "l", "i", "c", "M", "T">> =>
                safe_font = "Times-Italic"
          /\ NoFamilyNoStyle(font_name) => safe_font = "Helvetica"
    /\ fpc = "twice" => safe_font_again = safe_font

\* "TimesNewRomanPS-ItalicMT" resolved twice
C20_Witness ==
    /\ fpc = "twice"
    /\ font_name = <<"T", "i", "m", "e", "s", "N", "e", "w", "R", "o", "m", "a", "n", "P", "S", "-", "I", "t", "a", "l", "i", "c", "M", "T">>
    /\ safe_font_again = "Times-Italic"

(***************************************************************************)
(* C21                                                                     *)
(***************************************************************************)

SymbolWord == <<"s", "y", "m", "b", "o", "l">>
ZapfWord == <<"z", "a", "p", "f", "d", "i", "n", "g", "b", "a", "t", "s">>

\* the family of a normalized name, as the three style branches choose it
FamilyOf(normalized) ==
    IF Within(Times, normalized) THEN "serif"
    ELSE IF Within(Courier, normalized) THEN "mono"
    ELSE "sans"

\* the render font of a family, a weight and a slant
RenderFont(family, bold, slanted) ==
    CASE family = "serif" ->
            (IF bold /\ slanted THEN "Times-BoldItalic"
             ELSE IF bold THEN "Times-Bold"
             ELSE IF slanted THEN "Times-Italic" ELSE "Times-Roman")
      [] family = "mono" ->
            (IF bold /\ slanted THEN "Courier-BoldOblique"
             ELSE IF bold THEN "Courier-Bold"
             ELSE IF slanted THEN "Courier-Oblique" ELSE "Courier")
      [] OTHER ->
            (IF bold /\ slanted THEN "Helvetica-BoldOblique"
             ELSE IF bold THEN "Helvetica-Bold"
             ELSE IF slanted THEN "Helvetica-Oblique" ELSE "Helvetica")

IsBold(normalized) == Within(Bold, normalized)
IsSlanted(normalized) == Within(Italic, normalized) \/ Within(Oblique, normalized)
IsSymbolName(normalized) == Within(SymbolWord, normalized) \/ Within(ZapfWord, normalized)

\* C21: weight and slant are found independently: a name (not of the symbol
\* families) with "bold" or with "italic" or "oblique" in its normalized form
\* resolves to the render font of its family with that weight and that slant,
\* so "bold" together with "oblique" gives the bold-italic font of the
\* family; a symbol or zapfdingbats name without a style resolves to its
\* own font.
C21_WeightAndSlantIndependent ==
    fpc # "input" /\ fpc # "idle" =>
        LET normalized == Normalized(font_name) IN
        /\ (~IsSymbolName(normalized) /\ (IsBold(normalized) \/ IsSlanted(normalized))) =>
              safe_font = RenderFont(FamilyOf(normalized), IsBold(normalized),
                                     IsSlanted(normalized))
        /\ (~IsBold(normalized) /\ ~IsSlanted(normalized)
              /\ Within(SymbolWord, normalized)) => safe_font = "Symbol"
        /\ (~IsBold(normalized) /\ ~IsSlanted(normalized)
              /\ Within(ZapfWord, normalized) /\ ~Within(SymbolWord, normalized)) =>
              safe_font = "ZapfDingbats"

(***************************************************************************)
(* C22                                                                     *)
(***************************************************************************)

\* find_and_replace ran last and returned
Replaced == lastOp = "find_and_replace" /\ lastErr = "none" /\ ~NotDoc(prev.doc)

\* the style claimed for the replacement of the occurrence "under"
ClaimedStyle(under, match_style) ==
    LET nonblank == { j \in 1..Len(under) : under[j].ch # " " } IN
    IF match_style /\ nonblank # {}
    THEN LET first == CHOOSE j \in nonblank : \A k \in nonblank : j <= k
         IN [size |-> under[first].size, color |-> under[first].color]
    ELSE [size |-> 12, color |-> "black"]

\* in the line "after", the replacement of occurrence k of the line "before"
\* is drawn with the claimed style
DrawnAsClaimed(before, after, k) ==
    LET s == args.search
        r == args.repl
        hits == SearchLine(Chars(before), s, 1)
        at == hits[k] + (k - 1) * (Len(r) - Len(s))
        style == ClaimedStyle(SubSeq(before, hits[k], hits[k] + Len(s) - 1),
                              args.match_style)
    IN \A j \in 1..Len(r) :
          /\ at + j - 1 <= Len(after)
          /\ after[at + j - 1].ch = r[j]
          /\ after[at + j - 1].size = style.size
          /\ after[at + j - 1].color = style.color

C22_WitnessDefaults ==
    /\ Replaced
    /\ ~args.match_style
    /\ args.repl # <<>>
    /\ \E p \in 1..Len(prev.doc.pages) :
          \E l \in 1..Len(prev.doc.pages[p]) :
              LET before == prev.doc.pages[p][l]
                  hits == SearchLine(Chars(before), args.search, 1)
              IN \E k \in 1..Len(hits) : before[hits[k]].size = 14

(***************************************************************************)
(* C23                                                                     *)
(***************************************************************************)

\* the font names of the documents, character by character
FontChars(font) ==
    CASE font = "Helvetica" -> <<"H", "e", "l", "v", "e", "t", "i", "c", "a">>
      [] font = "Times-Bold" -> <<"T", "i", "m", "e", "s", "-", "B", "o", "l", "d">>
      [] OTHER -> <<"h", "e", "l", "v">>

\* the render font a fontname of insert_text stands for
PaintedFont(fontname) == IF fontname = "helv" THEN "Helvetica" ELSE fontname

\* the font of the first non-blank glyph of an occurrence, of its first glyph
\* if all are blank
FontUnder(under) ==
    LET nonblank == { j \in 1..Len(under) : under[j].ch # " " } IN
    IF nonblank = {} THEN under[1].font
    ELSE under[CHOOSE j \in nonblank : \A k \in nonblank : j <= k].font

\* C23: every replacement find_and_replace paints is painted in the font the
\* Font Resolver gives for the font of the occurrence it replaces.
C23_ReplacementFontResolved ==
    Replaced =>
        \A p \in 1..Len(prev.doc.pages) :
            \A l \in 1..Len(prev.doc.pages[p]) :
                LET before == prev.doc.pages[p][l]
                    after == doc.pages[p][l]
                    s == args.search
                    r == args.repl
                    hits == SearchLine(Chars(before), s, 1)
                IN \A k \in 1..Len(hits) :
                      \A j \in 1..Len(r) :
                          PaintedFont(after[hits[k] + (k - 1) * (Len(r) - Len(s)) + j - 1].font)
                              = _get_safe_font(
                                    FontChars(FontUnder(SubSeq(before, hits[k],
                                                               hits[k] + Len(s) - 1))))

(***************************************************************************)
(* C24                                                                     *)
(***************************************************************************)

\* the find_and_replace calls apply_template makes for one field
DirectCalls(field, data) ==
    ApplyField([pages |-> prev.doc.pages, total |-> 0, calls |-> <<>>], field, data).calls

\* a representation of one page whose only text element holds the field's text
JsonProbe(field) == << [textElements |-> << [text |-> field.text] >>] >>

\* the text of that element after replace_text's step for the field
JsonText(field, data) ==
    ReplaceVarElem(JsonProbe(field), 1, field, data)[1].textElements[1].text

\* C24: for every field with a type and a text and every value of the
\* synthesis contract, apply_template and replace_text skip the field in the
\* same cases and otherwise substitute the same string.
C24_SameSubstitution ==
    (lastOp = "apply_template" /\ lastErr = "none") =>
        \A k \in 1..Len(args.template) :
            LET field == args.template[k]
                direct == DirectCalls(field, args.synthetic_data)
            IN (field.fieldType # "" /\ field.text # <<>>) =>
                  IF direct = <<>>
                  THEN JsonText(field, args.synthetic_data) = field.text
                  ELSE JsonText(field, args.synthetic_data) = direct[1].repl

(***************************************************************************)
(* C25                                                                     *)
(***************************************************************************)

Filled == kpc = "done"

\* none is null afterwards, and a field that arrived with a number keeps it
NoneNullKept ==
    /\ Len(filled_fields) = Len(llm_fields)
    /\ \A k \in 1..Len(llm_fields) :
          /\ filled_fields[k].pageNumber # 0
          /\ filled_fields[k].text = llm_fields[k].text
          /\ filled_fields[k].fieldType = llm_fields[k].fieldType
          /\ llm_fields[k].pageNumber # 0 =>
                filled_fields[k].pageNumber = llm_fields[k].pageNumber

\* the numbers of the pages of the source representation with a text element
\* whose text is exactly the given text
SourcePagesWith(text) ==
    { class_json[n].pageNumber : n \in
        { m \in 1..Len(class_json) :
            \E k \in 1..Len(class_json[m].textElements) :
                class_json[m].textElements[k].text = text } }

\* C25 as stated: after the post-processing no field has a null pageNumber;
\* a field that arrived with null has the number of a page of the source
\* representation holding a text element with exactly the field's text, or 1
\* if no page holds that text; the others keep their number.
C25_FilledFromSource ==
    Filled =>
        /\ NoneNullKept
        /\ \A k \in 1..Len(llm_fields) :
              llm_fields[k].pageNumber = 0 =>
                 IF SourcePagesWith(llm_fields[k].text) # {}
                 THEN filled_fields[k].pageNumber \in SourcePagesWith(llm_fields[k].text)
                 ELSE filled_fields[k].pageNumber = 1

(***************************************************************************)
(* C26                                                                     *)
(***************************************************************************)

\* C26: every CurveElement of the extracted representation has at least two
\* points, and a page's CurveElements are the curves of two points or more of
\* the source page, in source order.
C26_CurvesHaveTwoPoints ==
    (rpc # "source" /\ rpc # "idle" /\ ~json_edited) =>
        \A n \in 1..Len(json_data) :
            /\ \A k \in 1..Len(json_data[n].curveElements) :
                  Len(json_data[n].curveElements[k]) >= 2
            /\ json_data[n].curveElements =
                  SelectSeq(source[n].curves, LAMBDA pts : Len(pts) >= 2)

\* ---------------------------------------------------------------------------
\* C27  While a page of height H is painted, every vertical coordinate is
\*      converted with that page's own H, whatever the heights of the other
\*      pages: a point y to H - y, a rectangle span [y0, y1] to the span that
\*      starts at H - y1 and is (H - y0) - (H - y1) high, a text run to the
\*      baseline H - y - height.  Converting a painted point back with the
\*      same H returns the original coordinate when H - y was computed without
\*      rounding, and a value within half a unit of the lost bits otherwise.

\* the events of one kind painted so far
EventsOf(kind) == {k \in 1..Len(events) : events[k].kind = kind}

\* y, converted and converted back with the height H, is y again
BackExactly(y, flipped, H) == FlipY(flipped, H) = y

\* the same up to the rounding of H - y
BackUpToRounding(y, flipped, H) ==
    LET back == FlipY(flipped, H)
        lost == Pow2(LostBits(H - y, 0))
    IN /\ RoundTo(H - y) = H - y => back = y
       /\ 2 * (back - y) <= lost
       /\ 2 * (y - back) <= lost

\* the points of a curve as x1, y1, x2, y2, ..
RECURSIVE FlatPoints(_)
FlatPoints(points) ==
    IF points = <<>> THEN <<>> ELSE <<Head(points)[1], Head(points)[2]>> \o FlatPoints(Tail(points))

\* every painted coordinate was converted with the height of its own page
OwnHeightUsed ==
    /\ \A k \in EventsOf("rect") :
          LET e == events[k]
              H == json_data[e.page].height
              r == json_data[e.page].rectElements[e.idx]
          IN /\ e.geom[2] = FlipY(r.y1, H)
             /\ e.geom[4] = FloatSub(FlipY(r.y0, H), FlipY(r.y1, H))
    /\ \A k \in EventsOf("line") :
          LET e == events[k]
              H == json_data[e.page].height
              l == json_data[e.page].lineElements[e.idx]
          IN e.geom[2] = FlipY(l.y0, H) /\ e.geom[4] = FlipY(l.y1, H)
    /\ \A k \in EventsOf("curve") :
          LET e == events[k]
              H == json_data[e.page].height
              pts == json_data[e.page].curveElements[e.idx]
          IN /\ Len(e.geom) = 2 * Len(pts)
             /\ \A j \in 1..Len(pts) : e.geom[2 * j] = FlipY(pts[j][2], H)
    /\ rpc = "show" =>
          \A k \in EventsOf("text") :
             events[k].page = page_i =>
                \E j \in 1..Len(page_text) :
                   /\ page_text[j].id = events[k].idx
                   /\ events[k].geom[2] =
                         FloatSub(FlipY(page_text[j].y, json_data[page_i].height),
                                  page_text[j].height)

\* the painted points, each with its original coordinate and its page height
PaintedPoints ==
    UNION {
      {<<json_data[events[k].page].lineElements[events[k].idx].y0, events[k].geom[2],
         json_data[events[k].page].height>> : k \in EventsOf("line")},
      {<<json_data[events[k].page].lineElements[events[k].idx].y1, events[k].geom[4],
         json_data[events[k].page].height>> : k \in EventsOf("line")},
      UNION {{<<json_data[events[k].page].curveElements[events[k].idx][j][2],
                events[k].geom[2 * j], json_data[events[k].page].height>> :
               j \in 1..(Len(events[k].geom) \div 2)} : k \in EventsOf("curve")} }

Answered(outcome) == outcome \in {"json", "text"}

\* chat_completion has ended
ChatEnded == hpc \in {"returned", "raised", "done"}

C28_BoundedAttempts ==
    /\ Len(requests) <= max_retries
    /\ \A k \in 1..(Len(requests) - 1) : ~Answered(requests[k])
    /\ caller_calls <= 1
    /\ ChatEnded =>
          /\ chat_ret # NoAnswer
          /\ chat_ret.raised <=>
                (Len(requests) = max_retries /\ \A k \in 1..Len(requests) : ~Answered(requests[k]))
          /\ ~chat_ret.raised =>
                /\ requests # <<>>
                /\ Answered(requests[Len(requests)])
                /\ chat_ret.value = requests[Len(requests)]
          /\ chat_ret.raised =>
                chat_ret.value \in {"Max retries exceeded", "LLM request failed",
                                    "Rate limit exceeded after retries"}
    /\ hpc = "done" => caller_calls = 1 /\ caller_out # "none"

\* the third request answered after two failures, and the caller has returned
C28_Witness ==
    /\ hpc = "done"
    /\ max_retries = 3
    /\ Len(requests) = 3
    /\ ~chat_ret.raised
    /\ caller_out = "result"

\* LLMError after three failed requests
C28_WitnessAllFailed ==
    /\ hpc = "done"
    /\ max_retries = 3
    /\ Len(requests) = 3
    /\ chat_ret.raised
    /\ caller_out = "SynthesisError"

\* LLMError without a request, for max_retries = 0
C28_WitnessNoAttempt ==
    /\ hpc = "done"
    /\ max_retries = 0
    /\ requests = <<>>
    /\ chat_ret = [raised |-> TRUE, value |-> "Max retries exceeded"]

\* ---------------------------------------------------------------------------
\* C29  Within one apply_template call no find_and_replace call of a later
\*      field hits text that the call of an earlier field painted, and the
\*      pages that result are the same when the fields are taken in the
\*      opposite order.

\* which glyphs of the pages were painted by this apply_template call: none yet
Unpainted(pages) == [p \in 1..Len(pages) |-> [l \in 1..Len(pages[p]) |->
                        [k \in 1..Len(pages[p][l]) |-> FALSE]]]

\* the painted marks of one line after find_and_replace(s, r)
RECURSIVE MarkLine(_, _, _, _, _)
MarkLine(line, marks, s, r, i) ==
    IF i > Len(line) THEN <<>>
    ELSE IF MatchAt(Chars(line), s, i)
         THEN [k \in 1..Len(r) |-> TRUE] \o MarkLine(line, marks, s, r, i + Len(s))
         ELSE <<marks[i]>> \o MarkLine(line, marks, s, r, i + 1)

MarkPages(pages, marks, s, r) ==
    [p \in 1..Len(pages) |-> [l \in 1..Len(pages[p]) |->
        MarkLine(pages[p][l], marks[p][l], s, r, 1)]]

\* find_and_replace(s, ..) redacts a rectangle that holds painted text
HitsPainted(pages, marks, s) ==
    \E p \in 1..Len(pages) : \E k \in 1..Len(SearchFor(pages[p], s)) :
       LET hit == SearchFor(pages[p], s)[k] IN
       \E j \in hit.start..(hit.start + Len(s) - 1) : marks[p][hit.line][j]

\* some call from the k-th on hits text painted by a call before it
RECURSIVE Repainted(_, _, _, _)
Repainted(pages, marks, made, k) ==
    IF k > Len(made) THEN FALSE
    ELSE \/ HitsPainted(pages, marks, made[k].search)
         \/ Repainted(FindAndReplacePages(pages, made[k].search, made[k].repl, TRUE).pages,
                      MarkPages(pages, marks, made[k].search, made[k].repl),
                      made, k + 1)

Reversed(fields) == [k \in 1..Len(fields) |-> fields[Len(fields) + 1 - k]]

AppliedTemplate == lastOp = "apply_template" /\ lastErr = "none"

C29_EachOccurrenceRewrittenOnce ==
    AppliedTemplate =>
       /\ ~Repainted(prev.doc.pages, Unpainted(prev.doc.pages), calls, 1)
       /\ ApplyTemplatePages(prev.doc.pages, Reversed(args.template),
                             args.synthetic_data).pages = doc.pages

\* ---------------------------------------------------------------------------
\* C30  The engine holds at most one open document and leaks none: the open
\*      documents are the one self.doc holds, after close() none is open, and
\*      while the engine holds the same document pdf_path keeps naming it.

\* the documents opened and not closed are exactly the one the engine holds
HoldsAllOpen == live = (IF doc = None THEN {} ELSE {doc.id})

C30_OneDocumentNoLeak ==
    /\ [](Cardinality(live) <= 1 /\ HoldsAllOpen /\ (lastOp = "close" => live = {}))
    /\ [][(doc # None /\ doc'.id = doc.id) => pdf_path' = pdf_path]_vars

=============================================================================
